---- MODULE Spec2Model ----
(***************************************************************************)
(* A model of the ludari orchestration core: the in-process cache          *)
(* (locks with expiry timers behind the withLock promise chain), the       *)
(* in-memory storage (Control, Job, JobRun) and the Manager (lifecycle,    *)
(* Control synchronisation, scheduler, per-firing pipeline).               *)
(*                                                                         *)
(* Every await of the source is a step boundary: a storage or cache call   *)
(* is one atomic step (both serialise their operations through withLock),  *)
(* and other replicas, timers and the clock may run between two steps.     *)
(***************************************************************************)
EXTENDS Integers, Sequences, FiniteSets, TLC

\* ------------------------------------------------------------ bounds
MaxTime == 1
MaxUuid == 2
MaxChain == 2
MaxBurst == 3
MaxCalls == 2
MaxJobs == 3
MaxDestroyCalls == 2
MaxIncr == 3

\* ------------------------------------------------------------ domains
Keys == {"lock:a"}
TtlChoices == {1, 2}
GivenValues == {<<"given", 1>>}
Replicas == {"r1", "r2", "r3"}
Instants == {1}
CtlReplicas == {"r1", "r2"}
Kinds == {"api", "tick"}
JobNames == {"j", "k"}
Unset == 0 - 1

VARIABLES
  now,          \* the clock (Date.now()), in ticks
  uuid,         \* how many randomUUID() values have been drawn
  locks,        \* InMemoryCache.locks: key -> [value, expiresAt, timeoutId]
  lockTimers,   \* armed setTimeout timers of the cache: {[id, key, due]}
  chain,        \* InMemoryCache.lockPromise: operations waiting in withLock
  burst,        \* the concurrent calls of the current burst, while they are all
                \* acquireLock calls on one key: [key, free, won, lost]
  last,         \* the cache call executed last, with the lock before and after it
  released,     \* key -> the value last released from it with success and not
                \* stored again since (NoValue when there is none)
  jobs,         \* InMemoryStorage.jobs: id -> Job
  jobsByName,   \* InMemoryStorage.jobsByName: name -> id
  jobRuns,      \* InMemoryStorage.jobRuns: id -> JobRun
  fire,         \* <<replica, instant>> -> the firing of that replica's cron timer
                \* for that scheduled instant, and where it is in handleJob
  activeLocks,  \* Manager.activeLocks of each replica: key -> lock info
  isDestroyed,  \* Manager.isDestroyed of each replica
  held,         \* the acquisitions not yet released by their replica nor expired
  executedBy,   \* instant -> the replicas that invoked execution for it
  controls,     \* InMemoryStorage.controls, in insertion order
  proc,         \* <<replica, kind>> -> the API call ("api") or the cron firing
                \* ("tick") in flight on that replica, and where it is
  isInitialized,  \* Manager.isInitialized of each replica
  isResetting,  \* Manager.isResetting of each replica
  cronJobs,     \* Manager.cronJobs of each replica: name -> the schedule of the
                \* running timer registered under that name
  managerEnabled, \* Manager.enabled of each replica (options.enabled)
  calls,        \* how many createJob / toggleControl / purgeControl calls were made
  createLog,    \* the createControl call executed last: rows before it, its error
  deadlockDetectionInterval,  \* how many watchdog intervals run on each replica
                \* (the Manager's field holds the handle of the last one started)
  apiLog,       \* the public API call made last, with its outcome
  batches,      \* InMemoryCache.batches: job name -> counter
  batchCalls,   \* the values the incrementBatch calls of the burst returned
  destroyCall   \* the destroy() call of each replica, and where it is

cacheVars == <<now, uuid, locks, lockTimers>>
callVars == <<chain, burst, last, released>>
jobVars == <<jobs, jobsByName>>
fireVars == <<fire, activeLocks, isDestroyed, held, executedBy>>
extVars == <<apiLog, batches, batchCalls, destroyCall>>
ctlVars == <<controls, proc, isInitialized, isResetting, cronJobs, managerEnabled, calls,
             createLog, deadlockDetectionInterval, extVars>>
vars == <<now, uuid, locks, lockTimers, chain, burst, last, released,
          jobs, jobsByName, jobRuns, fire, activeLocks, isDestroyed, held, executedBy,
          controls, proc, isInitialized, isResetting, cronJobs, managerEnabled, calls,
          createLog, deadlockDetectionInterval, apiLog, batches, batchCalls, destroyCall>>

\* ------------------------------------------------------------ Map helpers
MapSet(m, k, v) == [x \in (DOMAIN m) \cup {k} |-> IF x = k THEN v ELSE m[x]]
MapDel(m, k) == [x \in (DOMAIN m) \ {k} |-> m[x]]
EmptyMap == [x \in {} |-> 0]

NoValue == <<"none", 0>>
FreshValue(n) == <<"uuid", n>>

Firings == Replicas \X Instants
IdleFiring == [pc |-> "idle", hasRun |-> FALSE, lockValue |-> NoValue, todo |-> <<>>,
               threw |-> FALSE, lens |-> <<>>, rejected |-> FALSE, escaped |-> FALSE]
Procs == CtlReplicas \X Kinds
NoData == [none |-> TRUE]
Idle == [pc |-> "idle", op |-> "none", ret |-> "none", after |-> "none", id |-> 0,
         stale |-> {}, data |-> NoData, merged |-> NoData, attempt |-> 1]
NoCreate == [pre |-> 0, err |-> "none"]

NoApi == [op |-> "none", replica |-> "none", err |-> "none", name |-> "", current |-> "",
          data |-> {}]
\* no destroy() call made; releaseLocksOnShutdown defaults to true
NoDestroy == [pc |-> "idle", calls |-> 0, releaseLocksOnShutdown |-> TRUE, atCall |-> {},
              releases |-> {}, failed |-> {}]

\* the cache client of replica r has been destroyed (cache.destroy() sets
\* isDestroyed at once): its acquireLock returns {acquired: false}, its
\* releaseLock false
CacheDown(r) == destroyCall[r].pc \in {"cacheDestroy", "done"}

\* the fields the Manager's constructor and the cache's leave empty
InitExt ==
  /\ deadlockDetectionInterval = [r \in Replicas |-> 0]
  /\ apiLog = NoApi
  /\ batches = EmptyMap
  /\ batchCalls = <<>>
  /\ destroyCall = [r \in Replicas |-> NoDestroy]

\* ------------------------------------------------------------ InMemoryCache
\* acquireLock's test: a lock exists and has not expired
LockedAt(lk, key, t) == key \in DOMAIN lk /\ lk[key].expiresAt > t

\* acquireLock without its test of the existing lock
AcquireLockBlind(lk, tm, key, ttlMs, value, t) ==
  [res |-> [acquired |-> TRUE, lockValue |-> value, expiresAt |-> t + ttlMs],
   locks |-> MapSet(lk, key, [value |-> value, expiresAt |-> t + ttlMs,
                              timeoutId |-> t + ttlMs]),
   timers |-> tm \cup {[key |-> key, due |-> t + ttlMs]}]

\* acquireLock (inside withLock): [res, locks, timers]. A lock that is
\* present but expired is overwritten; its timer is NOT cleared.
AcquireLock(lk, tm, key, ttlMs, value, t) ==
  IF LockedAt(lk, key, t)
  THEN [res |-> [acquired |-> FALSE, lockValue |-> NoValue, expiresAt |-> 0],
        locks |-> lk, timers |-> tm]
  ELSE [res |-> [acquired |-> TRUE, lockValue |-> value, expiresAt |-> t + ttlMs],
        locks |-> MapSet(lk, key, [value |-> value, expiresAt |-> t + ttlMs,
                                   timeoutId |-> t + ttlMs]),
        timers |-> tm \cup {[key |-> key, due |-> t + ttlMs]}]

\* clearTimeout(existing.timeoutId)
ClearTimeout(tm, key, id) == tm \ {[key |-> key, due |-> id]}

\* releaseLock that deletes whatever lock is stored, without comparing values
ReleaseLockAny(lk, tm, key, value) ==
  IF key \notin DOMAIN lk
  THEN [res |-> FALSE, locks |-> lk, timers |-> tm]
  ELSE [res |-> TRUE, locks |-> MapDel(lk, key),
        timers |-> ClearTimeout(tm, key, lk[key].timeoutId)]

\* releaseLock (inside withLock): compare the stored value, then delete
ReleaseLock(lk, tm, key, value) ==
  IF key \notin DOMAIN lk \/ lk[key].value # value
  THEN [res |-> FALSE, locks |-> lk, timers |-> tm]
  ELSE [res |-> TRUE, locks |-> MapDel(lk, key),
        timers |-> ClearTimeout(tm, key, lk[key].timeoutId)]

\* extendLock (inside withLock): compare, clear the old timer, restart the TTL
ExtendLock(lk, tm, key, value, ttlMs, t) ==
  IF key \notin DOMAIN lk \/ lk[key].value # value
  THEN [res |-> FALSE, locks |-> lk, timers |-> tm]
  ELSE [res |-> TRUE,
        locks |-> MapSet(lk, key, [value |-> value, expiresAt |-> t + ttlMs,
                                   timeoutId |-> t + ttlMs]),
        timers |-> ClearTimeout(tm, key, lk[key].timeoutId)
                     \cup {[key |-> key, due |-> t + ttlMs]}]

\* performCleanup (inside withLock): drop the expired locks and their timers
ExpiredKeys(lk, t) == {k \in DOMAIN lk : lk[k].expiresAt <= t}
PerformCleanup(lk, tm, t) ==
  [res |-> TRUE,
   locks |-> [k \in (DOMAIN lk) \ ExpiredKeys(lk, t) |-> lk[k]],
   timers |-> {x \in tm : ~(x.key \in ExpiredKeys(lk, t)
                            /\ x.due = lk[x.key].timeoutId)}]

\* the setTimeout callback armed by acquireLock / extendLock: this.locks.delete(key)
TimerCallback(lk, key) == MapDel(lk, key)

DueTimers == {x \in lockTimers : x.due <= now}

\* ------------------------------------------------------------ withLock chain
\* One cache call: the operation a caller chained onto lockPromise.
Op(op, key, value, ttlMs) == [op |-> op, key |-> key, value |-> value, ttlMs |-> ttlMs]

\* The values a caller can pass: a given one, or one randomUUID() has produced.
KnownValues == GivenValues \cup {FreshValue(n) : n \in 1..uuid}

NoBurst(n) == [n |-> n, key |-> "none", free |-> FALSE, won |-> 0, lost |-> 0]

\* withLock: chain the operation after the current lockPromise. Calls chained
\* while earlier ones are still pending are concurrent: a burst. The burst is
\* tracked while it consists of acquireLock calls on one key.
Chain(o) ==
  /\ Len(chain) < MaxChain
  /\ chain = <<>> \/ burst.n + Len(chain) < MaxBurst
  /\ chain' = Append(chain, o)
  /\ burst' = IF chain = <<>>
              THEN IF o.op = "acquire"
                   THEN [n |-> 0, key |-> o.key, free |-> ~LockedAt(locks, o.key, now),
                         won |-> 0, lost |-> 0]
                   ELSE NoBurst(0)
              ELSE IF o.op = "acquire" /\ o.key = burst.key THEN burst
                   ELSE NoBurst(burst.n)
  /\ ~(o.op = "acquire" /\ o.value = NoValue) \/
       uuid + Cardinality({i \in 1..Len(chain) :
                            chain[i].op = "acquire" /\ chain[i].value = NoValue}) < MaxUuid
  /\ UNCHANGED <<ctlVars, cacheVars, last, released, jobVars, jobRuns, fireVars>>

CallAcquire ==
  \E k \in Keys, ttl \in TtlChoices, v \in GivenValues \cup {NoValue} :
    Chain(Op("acquire", k, v, ttl))

CallRelease == \E k \in Keys, v \in KnownValues : Chain(Op("release", k, v, 0))

CallExtend ==
  \E k \in Keys, v \in KnownValues, ttl \in TtlChoices : Chain(Op("extend", k, v, ttl))

\* the cleanup interval's callback: performCleanup()
CallCleanup == \E k \in Keys : Chain(Op("cleanup", k, NoValue, 0))

\* What the head operation of the chain does to the cache.
Apply(o) ==
  CASE o.op = "acquire" ->
         AcquireLock(locks, lockTimers, o.key, o.ttlMs,
                     IF o.value = NoValue THEN FreshValue(uuid + 1) ELSE o.value, now)
    [] o.op = "release" -> ReleaseLock(locks, lockTimers, o.key, o.value)
    [] o.op = "extend" -> ExtendLock(locks, lockTimers, o.key, o.value, o.ttlMs, now)
    [] OTHER -> PerformCleanup(locks, lockTimers, now)

\* the value and expiry stored at a key, <<NoValue, 0>> when there is none
Stored(lk, key) ==
  IF key \in DOMAIN lk THEN <<lk[key].value, lk[key].expiresAt>> ELSE <<NoValue, 0>>

NoCall ==
  [op |-> "none", key |-> "none", value |-> NoValue, ok |-> FALSE, got |-> NoValue,
   pre |-> <<NoValue, 0>>, post |-> <<NoValue, 0>>, again |-> FALSE]

\* withLock runs the operations in enqueue order, one at a time.
WithLockRun ==
  /\ chain # <<>>
  /\ LET o == Head(chain)
         r == Apply(o)
         ok == IF o.op = "acquire" THEN r.res.acquired ELSE r.res
         drew == o.op = "acquire" /\ o.value = NoValue /\ ok
     IN /\ locks' = r.locks
        /\ lockTimers' = r.timers
        /\ uuid' = IF drew THEN uuid + 1 ELSE uuid
        /\ burst' = IF burst.key = "none" THEN NoBurst(burst.n + 1)
                    ELSE IF ok THEN [burst EXCEPT !.n = @ + 1, !.won = @ + 1]
                    ELSE [burst EXCEPT !.n = @ + 1, !.lost = @ + 1]
        /\ last' = [op |-> o.op, key |-> o.key, value |-> o.value, ok |-> ok,
                    got |-> IF o.op = "acquire" THEN r.res.lockValue ELSE NoValue,
                    pre |-> Stored(locks, o.key), post |-> Stored(r.locks, o.key),
                    again |-> o.op = "release" /\ released[o.key] = o.value]
        /\ released' =
             IF o.op = "release" /\ ok THEN [released EXCEPT ![o.key] = o.value]
             ELSE IF o.key \in DOMAIN r.locks /\ r.locks[o.key].value = released[o.key]
                  THEN [released EXCEPT ![o.key] = NoValue]
                  ELSE released
  /\ chain' = Tail(chain)
  /\ UNCHANGED <<ctlVars, now, jobVars, jobRuns, fireVars>>

\* An armed timer fires: timers and the clock run only between bursts (the
\* chain is drained by microtasks, which no timer callback interleaves).
LockTimerFire ==
  /\ chain = <<>>
  /\ \E x \in DueTimers :
       /\ locks' = TimerCallback(locks, x.key)
       /\ lockTimers' = lockTimers \ {x}
  /\ burst' = NoBurst(0)
  /\ UNCHANGED <<ctlVars, now, uuid, chain, last, released, jobVars, jobRuns, fireVars>>

\* The clock advances once every due timer has fired.
TickTo(max) ==
  /\ chain = <<>>
  /\ DueTimers = {}
  /\ now < max
  /\ now' = now + 1
  /\ burst' = NoBurst(0)
  /\ held' = {h \in held : h.expiresAt > now + 1}
  /\ UNCHANGED <<ctlVars, uuid, locks, lockTimers, chain, last, released, jobVars, jobRuns,
                 fire, activeLocks, isDestroyed, executedBy>>

Tick == TickTo(MaxTime)

InitCache ==
  /\ now = 0
  /\ uuid = 0
  /\ locks = EmptyMap
  /\ lockTimers = {}
  /\ chain = <<>>
  /\ burst = NoBurst(0)
  /\ last = NoCall
  /\ released = [k \in Keys |-> NoValue]
  /\ jobs = EmptyMap
  /\ jobsByName = EmptyMap
  /\ jobRuns = EmptyMap
  /\ fire = [f \in Firings |-> IdleFiring]
  /\ activeLocks = [r \in Replicas |-> EmptyMap]
  /\ isDestroyed = [r \in Replicas |-> FALSE]
  /\ held = {}
  /\ executedBy = [k \in Instants |-> {}]
  /\ controls = <<>>
  /\ proc = [p \in Procs |-> Idle]
  /\ isInitialized = [r \in Replicas |-> FALSE]
  /\ isResetting = [r \in Replicas |-> FALSE]
  /\ cronJobs = [r \in Replicas |-> EmptyMap]
  /\ managerEnabled = [r \in Replicas |-> TRUE]
  /\ calls = 0
  /\ createLog = NoCreate
  /\ InitExt

NextCache ==
  \/ CallAcquire
  \/ CallRelease
  \/ CallExtend
  \/ CallCleanup
  \/ WithLockRun
  \/ LockTimerFire
  \/ Tick

SpecCache == InitCache /\ [][NextCache]_vars

\* ------------------------------------------------------------ InMemoryStorage
WATCH_JOB_NAME == "__watch__"
NoCron == 0

\* {...existing, ...data}: the fields of the patch replace those of the row
Merge(row, patch) == [f \in DOMAIN row |-> IF f \in DOMAIN patch THEN patch[f] ELSE row[f]]

\* a Job row; context is flattened to the keys the Manager reads; cron is a
\* schedule (NoCron when the job has none)
Job(name, type, enabled, cron, query, persist, distributed, ttl, runOnce) ==
  [name |-> name, type |-> type, enabled |-> enabled, cron |-> cron, query |-> query,
   persist |-> persist, distributed |-> distributed, ttl |-> ttl, runOnce |-> runOnce,
   deleted |-> FALSE]

\* findJob: 0 stands for null; a deleted row is not returned
FindJob(js, id) == IF id \in DOMAIN js /\ ~js[id].deleted THEN id ELSE 0

\* findJobByName: through the name index; a deleted row is not returned
FindJobByName(js, byName, name) ==
  IF name \in DOMAIN byName THEN FindJob(js, byName[name]) ELSE 0

\* createJob without the test of the name index
CreateJobNoCheck(js, byName, data) ==
  LET id == Cardinality(DOMAIN js) + 1
  IN [err |-> "none", id |-> id, jobs |-> MapSet(js, id, data),
      byName |-> MapSet(byName, data.name, id)]

\* createJob: Conflict when the name is in the index (deleted rows stay in it)
CreateJob(js, byName, data) ==
  IF data.name \in DOMAIN byName
  THEN [err |-> "Conflict", id |-> 0, jobs |-> js, byName |-> byName]
  ELSE CreateJobNoCheck(js, byName, data)

\* updateJob: NotFound, Conflict on a rename onto an indexed name, else merge
\* the patch and move the index entry when the name changes
UpdateJob(js, byName, id, patch) ==
  LET renames == "name" \in DOMAIN patch /\ patch.name # "" /\ patch.name # js[id].name
  IN IF id \notin DOMAIN js
     THEN [err |-> "NotFound", id |-> 0, jobs |-> js, byName |-> byName]
     ELSE IF renames /\ patch.name \in DOMAIN byName
     THEN [err |-> "Conflict", id |-> 0, jobs |-> js, byName |-> byName]
     ELSE [err |-> "none", id |-> id, jobs |-> [js EXCEPT ![id] = Merge(js[id], patch)],
           byName |-> IF renames
                      THEN MapSet(MapDel(byName, js[id].name), patch.name, id)
                      ELSE byName]

\* deleteJob: soft delete; the name index keeps the entry
DeleteJob(js, byName, id) ==
  IF id \notin DOMAIN js
  THEN [err |-> "NotFound", id |-> 0, jobs |-> js, byName |-> byName]
  ELSE [err |-> "none", id |-> id, jobs |-> [js EXCEPT ![id].deleted = TRUE],
        byName |-> byName]

\* createJobRun: INVALID_REFERENCE when the job is unknown; completed and
\* failed start undefined
CreateJobRun(runs, js, runId, jobId, started) ==
  IF jobId \notin DOMAIN js
  THEN [err |-> "INVALID_REFERENCE", runs |-> runs]
  ELSE [err |-> "none",
        runs |-> MapSet(runs, runId, [job_id |-> jobId, started |-> started,
                                      completed |-> Unset, failed |-> Unset,
                                      result |-> <<>>, writes |-> 1])]

\* updateJobRun: NotFound, else merge the patch
UpdateJobRun(runs, runId, patch) ==
  IF runId \notin DOMAIN runs
  THEN [err |-> "NotFound", runs |-> runs]
  ELSE [err |-> "none",
        runs |-> [runs EXCEPT ![runId] =
                    [Merge(runs[runId], patch) EXCEPT !.writes = @ + 1]]]

\* ------------------------------------------------------------ Manager.handleJob
FiredJob == "a"
LockKey(name) == "lock:" \o name


\* the steps of the try block after the execution has returned, with the
\* JobRun write before the runOnce update
AfterExecutionRunFirst(runOnce, hasRun) ==
  (IF hasRun THEN <<"complete">> ELSE <<>>) \o (IF runOnce THEN <<"runOnce">> ELSE <<>>)

\* the steps of the try block after the execution has returned: the runOnce
\* update, then the JobRun write
AfterExecution(runOnce, hasRun) ==
  (IF runOnce THEN <<"runOnce">> ELSE <<>>) \o (IF hasRun THEN <<"complete">> ELSE <<>>)

\* finally without the release
FinallyNoRelease(f) == [f EXCEPT !.pc = "done", !.todo = <<>>]

\* finally: release the lock when this firing acquired one
Finally(f) == [f EXCEPT !.pc = IF f.lockValue # NoValue THEN "release" ELSE "done",
                        !.todo = <<>>]

\* executeJob awaits handleJob inside try / catch: a rejection is logged and
\* goes no further
ExecuteJobRethrow(rejected) == rejected
ExecuteJobCatch(rejected) == FALSE

\* catch: capture the error in the lens, mark the JobRun failed when there is one
Catch(f) ==
  LET g == [f EXCEPT !.lens = Append(@, "Job execution failed")]
  IN IF g.hasRun THEN [g EXCEPT !.pc = "markFailed", !.todo = <<>>] ELSE Finally(g)

\* the try block goes on with the next step after the execution
Proceed(f) == IF f.todo = <<>> THEN Finally(f)
              ELSE [f EXCEPT !.pc = Head(f.todo), !.todo = Tail(f.todo)]

\* the lock stage is reached: acquire when distributed, else run the execution
LockStage(f, job) == [f EXCEPT !.pc = IF job.distributed THEN "acquire" ELSE "exec"]

TheJob == jobs[jobsByName[FiredJob]]

\* the cron timer of replica r fires for scheduled instant k: executeJob calls
\* handleJob, which returns at once on a destroyed Manager
CronFire(r, k) ==
  /\ fire[<<r, k>>].pc = "idle"
  /\ k - 1 \in Instants => fire[<<r, k - 1>>].pc # "idle"
  /\ fire' = [fire EXCEPT ![<<r, k>>].pc = IF isDestroyed[r] THEN "done" ELSE "findJob"]
  /\ UNCHANGED <<ctlVars, cacheVars, callVars, jobVars, jobRuns, activeLocks, isDestroyed, held,
                 executedBy>>

\* findJobByName, then the synchronous code up to the next await
HandleFind(r, k) ==
  /\ fire[<<r, k>>].pc = "findJob"
  /\ LET id == FindJobByName(jobs, jobsByName, FiredJob)
         f == fire[<<r, k>>]
         g == IF id = 0 \/ ~jobs[id].enabled THEN [f EXCEPT !.pc = "done"]
              ELSE IF jobs[id].persist THEN [f EXCEPT !.pc = "createRun"]
              ELSE LockStage(f, jobs[id])
     IN /\ fire' = [fire EXCEPT ![<<r, k>>] = g]
        /\ executedBy' = IF g.pc = "exec" THEN [executedBy EXCEPT ![k] = @ \cup {r}]
                         ELSE executedBy
  /\ UNCHANGED <<ctlVars, cacheVars, callVars, jobVars, jobRuns, activeLocks, isDestroyed, held>>

\* createJobRun({job_id, started}); the storage may fail
HandleCreateRun(r, k) ==
  /\ fire[<<r, k>>].pc = "createRun"
  /\ \E fails \in BOOLEAN :
       LET f == fire[<<r, k>>]
           c == CreateJobRun(jobRuns, jobs, <<r, k>>, jobsByName[FiredJob], now)
           g == IF fails \/ c.err # "none" THEN Catch(f)
                ELSE LockStage([f EXCEPT !.hasRun = TRUE], TheJob)
       IN /\ jobRuns' = IF fails THEN jobRuns ELSE c.runs
          /\ fire' = [fire EXCEPT ![<<r, k>>] = g]
          /\ executedBy' = IF g.pc = "exec" THEN [executedBy EXCEPT ![k] = @ \cup {r}]
                           ELSE executedBy
  /\ UNCHANGED <<ctlVars, cacheVars, callVars, jobVars, activeLocks, isDestroyed, held>>

\* getJobContext or acquireLock throws (the cache is unreachable): catch
HandleAcquireFail(r, k) ==
  /\ fire[<<r, k>>].pc = "acquire"
  /\ fire' = [fire EXCEPT ![<<r, k>>] = Catch(@)]
  /\ UNCHANGED <<ctlVars, cacheVars, callVars, jobVars, jobRuns, activeLocks, isDestroyed, held,
                 executedBy>>

\* the lock is not acquired, and the firing goes on to the execution all the same
ReturnNotAcquiredRun(f) == [f EXCEPT !.pc = "exec"]
\* the lock is not acquired: return from inside the try block; finally finds
\* no lockValue and releases nothing
ReturnNotAcquired(f) == [f EXCEPT !.pc = "done"]

\* acquireLock(lock:<name>, {ttlMs}); on success track the lock and invoke the
\* execution, else return
HandleAcquire(r, k) ==
  /\ fire[<<r, k>>].pc = "acquire"
  /\ LET f == fire[<<r, k>>]
         key == LockKey(FiredJob)
         a == AcquireLock(locks, lockTimers, key, TheJob.ttl, FreshValue(uuid + 1), now)
     IN IF a.res.acquired /\ ~CacheDown(r)
        THEN /\ locks' = a.locks
             /\ lockTimers' = a.timers
             /\ uuid' = uuid + 1
             /\ activeLocks' = [activeLocks EXCEPT ![r] =
                  MapSet(@, key, [lockValue |-> a.res.lockValue, acquiredAt |-> now,
                                  ttlMs |-> TheJob.ttl])]
             /\ held' = held \cup {[replica |-> r, value |-> a.res.lockValue,
                                    expiresAt |-> a.res.expiresAt]}
             /\ fire' = [fire EXCEPT ![<<r, k>>] =
                           [f EXCEPT !.pc = "exec", !.lockValue = a.res.lockValue]]
             /\ executedBy' = [executedBy EXCEPT ![k] = @ \cup {r}]
        ELSE /\ fire' = [fire EXCEPT ![<<r, k>>] = ReturnNotAcquired(f)]
             /\ UNCHANGED <<locks, lockTimers, uuid, activeLocks, held, executedBy>>
  /\ UNCHANGED <<ctlVars, now, callVars, jobVars, jobRuns, isDestroyed>>

\* the execution closure returns or throws
ExecEnd(r, k) ==
  /\ fire[<<r, k>>].pc = "exec"
  /\ \E throws \in BOOLEAN :
       LET f == fire[<<r, k>>]
       IN fire' = [fire EXCEPT ![<<r, k>>] =
                     IF throws THEN Catch([f EXCEPT !.threw = TRUE])
                     ELSE Proceed([f EXCEPT !.todo = AfterExecution(TheJob.runOnce, f.hasRun)])]
  /\ UNCHANGED <<ctlVars, cacheVars, callVars, jobVars, jobRuns, activeLocks, isDestroyed, held,
                 executedBy>>

\* context.runOnce: storage.updateJob(job.id, {enabled: false})
HandleRunOnce(r, k) ==
  /\ fire[<<r, k>>].pc = "runOnce"
  /\ \E fails \in BOOLEAN :
       LET f == fire[<<r, k>>]
           u == UpdateJob(jobs, jobsByName, jobsByName[FiredJob], [enabled |-> FALSE])
       IN /\ jobs' = IF fails THEN jobs ELSE u.jobs
          /\ fire' = [fire EXCEPT ![<<r, k>>] =
                        IF fails \/ u.err # "none" THEN Catch(f) ELSE Proceed(f)]
  /\ UNCHANGED <<ctlVars, cacheVars, callVars, jobsByName, jobRuns, activeLocks, isDestroyed, held,
                 executedBy>>

\* updateJobRun(jobRun.id, {completed: now, result})
HandleComplete(r, k) ==
  /\ fire[<<r, k>>].pc = "complete"
  /\ \E fails \in BOOLEAN :
       LET f == fire[<<r, k>>]
           u == UpdateJobRun(jobRuns, <<r, k>>, [completed |-> now, result |-> <<"result">>])
       IN /\ jobRuns' = IF fails THEN jobRuns ELSE u.runs
          /\ fire' = [fire EXCEPT ![<<r, k>>] =
                        IF fails \/ u.err # "none" THEN Catch(f) ELSE Proceed(f)]
  /\ UNCHANGED <<ctlVars, cacheVars, callVars, jobVars, activeLocks, isDestroyed, held, executedBy>>

\* catch: updateJobRun(jobRun.id, {failed: now, result: lens frames}); when
\* the write throws, handleJob rejects after its finally block
HandleMarkFailed(r, k) ==
  /\ fire[<<r, k>>].pc = "markFailed"
  /\ \E fails \in BOOLEAN :
       LET f == fire[<<r, k>>]
           u == UpdateJobRun(jobRuns, <<r, k>>, [failed |-> now, result |-> f.lens])
       IN /\ jobRuns' = IF fails THEN jobRuns ELSE u.runs
          /\ fire' = [fire EXCEPT ![<<r, k>>] =
                        Finally([f EXCEPT !.rejected = fails \/ u.err # "none",
                                          !.escaped = ExecuteJobCatch(fails \/ u.err # "none")])]
  /\ UNCHANGED <<ctlVars, cacheVars, callVars, jobVars, activeLocks, isDestroyed, held, executedBy>>

\* finally: releaseLock(lockKey, lockValue), then activeLocks.delete(lockKey)
HandleRelease(r, k) ==
  /\ fire[<<r, k>>].pc = "release"
  /\ LET f == fire[<<r, k>>]
         key == LockKey(FiredJob)
         rl == ReleaseLock(locks, lockTimers, key, f.lockValue)
     IN /\ locks' = IF CacheDown(r) THEN locks ELSE rl.locks
        /\ lockTimers' = IF CacheDown(r) THEN lockTimers ELSE rl.timers
        /\ activeLocks' = [activeLocks EXCEPT ![r] = MapDel(@, key)]
        /\ held' = IF CacheDown(r) THEN held
                   ELSE {h \in held : ~(h.replica = r /\ h.value = f.lockValue)}
        /\ fire' = [fire EXCEPT ![<<r, k>>].pc = "done"]
  /\ UNCHANGED <<ctlVars, now, uuid, callVars, jobVars, jobRuns, isDestroyed, executedBy>>

\* finally: releaseLock throws; the entry is still removed from activeLocks and
\* the lock stays in the cache until it expires
HandleReleaseFail(r, k) ==
  /\ fire[<<r, k>>].pc = "release"
  /\ activeLocks' = [activeLocks EXCEPT ![r] = MapDel(@, LockKey(FiredJob))]
  /\ fire' = [fire EXCEPT ![<<r, k>>].pc = "done"]
  /\ UNCHANGED <<ctlVars, cacheVars, callVars, jobVars, jobRuns, isDestroyed, held, executedBy>>

\* the state after createJob of job "a", of any persist / distributed / runOnce
InitFire ==
  /\ now = 0
  /\ uuid = 0
  /\ locks = EmptyMap
  /\ lockTimers = {}
  /\ chain = <<>>
  /\ burst = NoBurst(0)
  /\ last = NoCall
  /\ released = [k \in Keys |-> NoValue]
  /\ \E persist \in BOOLEAN, distributed \in BOOLEAN, runOnce \in BOOLEAN, ttl \in TtlChoices :
       jobs = [i \in {1} |-> Job(FiredJob, "inline", TRUE, 1, FALSE, persist,
                                 distributed, ttl, runOnce)]
  /\ jobsByName = [n \in {FiredJob} |-> 1]
  /\ jobRuns = EmptyMap
  /\ fire = [f \in Firings |-> IdleFiring]
  /\ activeLocks = [r \in Replicas |-> EmptyMap]
  /\ isDestroyed = [r \in Replicas |-> FALSE]
  /\ held = {}
  /\ executedBy = [k \in Instants |-> {}]
  /\ controls = <<>>
  /\ proc = [p \in Procs |-> Idle]
  /\ isInitialized = [r \in Replicas |-> FALSE]
  /\ isResetting = [r \in Replicas |-> FALSE]
  /\ cronJobs = [r \in Replicas |-> EmptyMap]
  /\ managerEnabled = [r \in Replicas |-> TRUE]
  /\ calls = 0
  /\ createLog = NoCreate
  /\ InitExt

NextFire ==
  \/ \E r \in Replicas, k \in Instants : CronFire(r, k)
  \/ \E r \in Replicas, k \in Instants : HandleFind(r, k)
  \/ \E r \in Replicas, k \in Instants : HandleCreateRun(r, k)
  \/ \E r \in Replicas, k \in Instants : HandleAcquire(r, k)
  \/ \E r \in Replicas, k \in Instants : HandleAcquireFail(r, k)
  \/ \E r \in Replicas, k \in Instants : ExecEnd(r, k)
  \/ \E r \in Replicas, k \in Instants : HandleRunOnce(r, k)
  \/ \E r \in Replicas, k \in Instants : HandleComplete(r, k)
  \/ \E r \in Replicas, k \in Instants : HandleMarkFailed(r, k)
  \/ \E r \in Replicas, k \in Instants : HandleRelease(r, k)
  \/ \E r \in Replicas, k \in Instants : HandleReleaseFail(r, k)
  \/ LockTimerFire
  \/ Tick

SpecFire == InitFire /\ [][NextFire]_vars

\* the firings of two replicas only
NextRun ==
  \/ \E r \in CtlReplicas, k \in Instants : CronFire(r, k)
  \/ \E r \in CtlReplicas, k \in Instants : HandleFind(r, k)
  \/ \E r \in CtlReplicas, k \in Instants : HandleCreateRun(r, k)
  \/ \E r \in CtlReplicas, k \in Instants : HandleAcquire(r, k)
  \/ \E r \in CtlReplicas, k \in Instants : HandleAcquireFail(r, k)
  \/ \E r \in CtlReplicas, k \in Instants : ExecEnd(r, k)
  \/ \E r \in CtlReplicas, k \in Instants : HandleRunOnce(r, k)
  \/ \E r \in CtlReplicas, k \in Instants : HandleComplete(r, k)
  \/ \E r \in CtlReplicas, k \in Instants : HandleMarkFailed(r, k)
  \/ \E r \in CtlReplicas, k \in Instants : HandleRelease(r, k)
  \/ \E r \in CtlReplicas, k \in Instants : HandleReleaseFail(r, k)
  \/ LockTimerFire
  \/ Tick

SpecRun == InitFire /\ [][NextRun]_vars

\* ------------------------------------------------------------ Control rows
MaxRetries == 5

\* createControl without the test for an existing row
CreateControlNoCheck(cs, data) ==
  [err |-> "none", id |-> Len(cs) + 1,
   controls |-> Append(cs, [id |-> Len(cs) + 1, enabled |-> data.enabled,
                            replicas |-> data.replicas, stale |-> data.stale,
                            version |-> data.version])]

\* createControl: Conflict when a row exists
CreateControl(cs, data) ==
  IF Len(cs) > 0 THEN [err |-> "Conflict", id |-> 0, controls |-> cs]
  ELSE CreateControlNoCheck(cs, data)

\* updateControl: NotFound, Conflict when the patch carries a version other than
\* the stored one, else merge the patch
UpdateControl(cs, id, patch) ==
  LET at == {i \in 1..Len(cs) : cs[i].id = id}
      i == CHOOSE x \in at : TRUE
  IN IF at = {} THEN [err |-> "NotFound", controls |-> cs]
     ELSE IF "version" \in DOMAIN patch /\ cs[i].version # patch.version
     THEN [err |-> "Conflict", controls |-> cs]
     ELSE [err |-> "none", controls |-> [cs EXCEPT ![i] = Merge(cs[i], patch)]]

\* findJobs({deleted: null}): the live rows, never the watch job
FindJobs(js) == {id \in DOMAIN js : js[id].name # WATCH_JOB_NAME /\ ~js[id].deleted}

\* scheduleJob for every job of the list: the timer of that name, if any, is
\* stopped, and a new one started when the job is enabled and has a cron
ScheduleJobs(cron, js, ids) ==
  LET started == {x \in ids : js[x].enabled /\ js[x].cron # NoCron /\ ~js[x].deleted
                              /\ ~(js[x].type = "query" /\ ~js[x].query)}
      names == (DOMAIN cron \ {js[id].name : id \in ids}) \cup {js[id].name : id \in started}
  IN [n \in names |-> IF \E x \in started : js[x].name = n
                      THEN js[CHOOSE x \in started : js[x].name = n].cron
                      ELSE cron[n]]

\* the patch updateControlWithRetry sends: the caller's data under the version
\* just read; replicas replace the stored list when empty or flagged exact, else
\* they are united with it
MergedData(data, current) ==
  [f \in (DOMAIN data \cup {"version"}) \ {"exact"} |->
     IF f = "version" THEN current.version
     ELSE IF f = "replicas"
     THEN IF data.replicas = {} \/ ("exact" \in DOMAIN data /\ data.exact)
          THEN data.replicas ELSE current.replicas \cup data.replicas
     ELSE data[f]]

\* ------------------------------------------------------------ Manager: Control
\* the call or firing p goes on at label; the labels that end it bring it back
\* to idle: initialize sets isInitialized after prepare, resetJobs clears
\* isResetting in its finally
Goto(p, rec, label) ==
  /\ proc' = [proc EXCEPT ![p] =
       IF label = "prepStale"
       THEN IF p[1] \in rec.stale
            THEN [rec EXCEPT !.pc = "ucwrGet", !.data = [stale |-> rec.stale \ {p[1]}],
                             !.merged = NoData, !.attempt = 1, !.ret = "prepWatch"]
            ELSE [rec EXCEPT !.pc = "prepWatch", !.data = NoData, !.merged = NoData]
       ELSE IF label \in {"prepDone", "trDone", "resetDone", "toggleDone", "failed"}
       THEN Idle
       ELSE [rec EXCEPT !.pc = label]]
  /\ isInitialized' = IF label = "prepDone" /\ rec.op = "initialize"
                      THEN [isInitialized EXCEPT ![p[1]] = TRUE] ELSE isInitialized
  /\ isResetting' = IF p[2] = "tick" /\ label \in {"resetDone", "failed"}
                    THEN [isResetting EXCEPT ![p[1]] = FALSE] ELSE isResetting
  /\ deadlockDetectionInterval' =
       IF label = "prepDone" /\ rec.op = "initialize"
       THEN [deadlockDetectionInterval EXCEPT ![p[1]] = @ + 1]
       ELSE deadlockDetectionInterval

otherVars == <<cacheVars, callVars, jobRuns, fireVars, managerEnabled, extVars>>

\* ensureInitialized(): the error it throws, "none" when it returns
NOT_INITIALIZED == "Manager not initialized. Call initialize() first."
DESTROYED == "Manager has been destroyed."
EnsureInitializedOnly(r) == IF ~isInitialized[r] THEN NOT_INITIALIZED ELSE "none"
EnsureInitialized(r) ==
  IF isDestroyed[r] THEN DESTROYED
  ELSE IF ~isInitialized[r] THEN NOT_INITIALIZED
  ELSE "none"

\* initialize(): returns at once when initialized, else prepare()
Initialize(r) ==
  /\ proc[<<r, "api">>].pc = "idle"
  /\ ~isInitialized[r]
  /\ proc' = [proc EXCEPT ![<<r, "api">>] = [Idle EXCEPT !.pc = "prepGet", !.op = "initialize"]]
  /\ UNCHANGED <<otherVars, jobVars, controls, isInitialized, deadlockDetectionInterval, isResetting, cronJobs, calls,
                 createLog>>

\* the caches a Manager may be given, by what they do with pingReplica: a
\* cache that tracks the replicas (RedisCache) answers true or false, the
\* InMemoryCache always answers false, and a cache may have no pingReplica
\* ("alive" is a tracking cache while every replica is registered and answers)
CacheKinds == {"tracking", "alive", "memory", "absent"}
Pongs(kind, others) ==
  IF kind = "tracking" THEN SUBSET others
  ELSE IF kind = "alive" THEN {others}
  ELSE {{}}

\* performReplicaHealthCheck(replicas), alive being the replicas whose ping
\* answered true
PerformReplicaHealthCheck(self, replicas, kind, alive) ==
  IF replicas = {} THEN {}
  ELSE IF kind = "absent" THEN replicas \cup {self}
  ELSE {self} \cup alive

\* prepare: getControl; with a Control, the health check of its replicas (each
\* other replica answers the ping or not) and the first update when the list
\* changed
PrepareGetWith(p, kind) ==
  /\ proc[p].pc = "prepGet"
  /\ IF Len(controls) = 0
     THEN Goto(p, proc[p], "prepCreate")
     ELSE \E alive \in Pongs(kind, controls[1].replicas \ {p[1]}) :
            LET control == controls[1]
                healthy == PerformReplicaHealthCheck(p[1], control.replicas, kind, alive)
                             \cup {p[1]}
                rec == [proc[p] EXCEPT !.id = control.id, !.stale = control.stale]
            IN IF healthy # control.replicas
               THEN Goto(p, [rec EXCEPT !.data = [replicas |-> healthy,
                                                  stale |-> control.stale \cap healthy,
                                                  exact |-> TRUE],
                                        !.attempt = 1, !.ret = "prepStale"], "ucwrGet")
               ELSE Goto(p, rec, "prepStale")
  /\ UNCHANGED <<otherVars, jobVars, controls, cronJobs, calls, createLog>>

\* prepare with a cache that tracks the replicas
PrepareGet(p) == PrepareGetWith(p, "tracking")

\* prepare: createControl({enabled: true, replicas: [self], stale: [], version})
PrepareCreate(p) ==
  /\ proc[p].pc = "prepCreate"
  /\ LET c == CreateControl(controls, [enabled |-> TRUE, replicas |-> {p[1]}, stale |-> {},
                                       version |-> <<"version", p[1]>>])
     IN /\ controls' = c.controls
        /\ createLog' = [pre |-> Len(controls), err |-> c.err]
        /\ IF c.err # "none" THEN Goto(p, proc[p], "failed")
           ELSE Goto(p, [proc[p] EXCEPT !.id = c.id, !.stale = {}], "prepStale")
  /\ UNCHANGED <<otherVars, jobVars, cronJobs, calls>>

\* updateControlWithRetry: getControl, check the id, compose the merged patch
UcwrGet(p) ==
  /\ proc[p].pc = "ucwrGet"
  /\ IF Len(controls) = 0 \/ controls[1].id # proc[p].id
     THEN Goto(p, proc[p], "failed")
     ELSE Goto(p, [proc[p] EXCEPT !.merged = MergedData(proc[p].data, controls[1])],
               "ucwrPut")
  /\ UNCHANGED <<otherVars, jobVars, controls, cronJobs, calls, createLog>>

\* what follows an attempt that retries after every conflict
AfterAttemptForever(err, attempt, maxRetries) ==
  IF err = "none" THEN "return"
  ELSE IF err = "Conflict" THEN "retry"
  ELSE "throw"

\* what follows an attempt of updateControlWithRetry: the result is returned;
\* a conflict before the last attempt is retried after the backoff; a conflict
\* of the last attempt ends the loop, after which the summary error is thrown;
\* any other error is thrown at once
AfterAttempt(err, attempt, maxRetries) ==
  IF err = "none" THEN "return"
  ELSE IF err = "Conflict" /\ attempt < maxRetries THEN "retry"
  ELSE IF err = "Conflict" THEN "summary"
  ELSE "throw"

\* updateControlWithRetry: updateControl(id, mergedData); a version mismatch
\* is retried up to maxRetries attempts
UcwrPut(p) ==
  /\ proc[p].pc = "ucwrPut"
  /\ LET u == UpdateControl(controls, proc[p].id, proc[p].merged)
     IN /\ controls' = u.controls
        /\ IF AfterAttempt(u.err, proc[p].attempt, MaxRetries) = "retry"
           THEN Goto(p, [proc[p] EXCEPT !.attempt = @ + 1], "ucwrGet")
           ELSE IF AfterAttempt(u.err, proc[p].attempt, MaxRetries) \in {"summary", "throw"}
           THEN Goto(p, proc[p], "failed")
           ELSE Goto(p, proc[p], proc[p].ret)
  /\ UNCHANGED <<otherVars, jobVars, cronJobs, calls, createLog>>

\* prepare: findJobByName(__watch__)
PrepareWatch(p) ==
  /\ proc[p].pc = "prepWatch"
  /\ IF FindJobByName(jobs, jobsByName, WATCH_JOB_NAME) = 0
     THEN Goto(p, proc[p], "prepWatchCreate")
     ELSE Goto(p, [proc[p] EXCEPT !.after = "prepDone"], "ijGet")
  /\ UNCHANGED <<otherVars, jobVars, controls, cronJobs, calls, createLog>>

\* prepare: createJob of the watch job
PrepareWatchCreate(p) ==
  /\ proc[p].pc = "prepWatchCreate"
  /\ LET c == CreateJob(jobs, jobsByName,
                        Job(WATCH_JOB_NAME, "query", TRUE, 1, FALSE, FALSE, FALSE, 1, FALSE))
     IN /\ jobs' = c.jobs
        /\ jobsByName' = c.byName
        /\ IF c.err # "none" THEN Goto(p, proc[p], "failed")
           ELSE Goto(p, [proc[p] EXCEPT !.after = "prepDone"], "ijGet")
  /\ UNCHANGED <<otherVars, controls, cronJobs, calls, createLog>>

\* initializeJobs: getControl; return when the Control or the Manager is disabled
InitializeJobsGet(p) ==
  /\ proc[p].pc = "ijGet"
  /\ IF Len(controls) = 0 \/ ~controls[1].enabled \/ ~managerEnabled[p[1]]
     THEN Goto(p, proc[p], proc[p].after)
     ELSE Goto(p, proc[p], "ijFind")
  /\ UNCHANGED <<otherVars, jobVars, controls, cronJobs, calls, createLog>>

\* initializeJobs: findJobs({deleted: null}) and scheduleJob for each
InitializeJobsFind(p) ==
  /\ proc[p].pc = "ijFind"
  /\ cronJobs' = [cronJobs EXCEPT ![p[1]] = ScheduleJobs(@, jobs, FindJobs(jobs))]
  /\ Goto(p, proc[p], proc[p].after)
  /\ UNCHANGED <<otherVars, jobVars, controls, calls, createLog>>


\* createJob(data) of a method job with a cron: ensureInitialized, the
\* validations, storage.createJob, then triggerReset
CreateJobCall(r, name) ==
  /\ proc[<<r, "api">>].pc = "idle"
  /\ EnsureInitialized(r) = "none"
  /\ calls < MaxCalls
  /\ calls' = calls + 1
  /\ LET c == CreateJob(jobs, jobsByName,
                        Job(name, "method", TRUE, 1, FALSE, FALSE, FALSE, 1, FALSE))
     IN /\ jobs' = c.jobs
        /\ jobsByName' = c.byName
        /\ proc' = [proc EXCEPT ![<<r, "api">>] =
                      IF c.err # "none" THEN Idle
                      ELSE [Idle EXCEPT !.pc = "trGet", !.op = "createJob"]]
  /\ UNCHANGED <<otherVars, controls, isInitialized, deadlockDetectionInterval, isResetting, cronJobs, createLog>>

\* triggerReset: getControl, then the update that marks the replicas read stale
TriggerResetGet(p) ==
  /\ proc[p].pc = "trGet"
  /\ IF Len(controls) = 0
     THEN Goto(p, proc[p], "trDone")
     ELSE Goto(p, [proc[p] EXCEPT !.id = controls[1].id,
                                  !.data = [stale |-> controls[1].replicas,
                                            version |-> <<"version", "reset">>],
                                  !.attempt = 1, !.ret = "trDone"], "ucwrGet")
  /\ UNCHANGED <<otherVars, jobVars, controls, cronJobs, calls, createLog>>

\* toggleControl(): ensureInitialized, getControl
ToggleControlCall(r) ==
  /\ proc[<<r, "api">>].pc = "idle"
  /\ EnsureInitialized(r) = "none"
  /\ calls < MaxCalls
  /\ Len(controls) > 0
  /\ calls' = calls + 1
  /\ proc' = [proc EXCEPT ![<<r, "api">>] =
                [Idle EXCEPT !.pc = "togglePut", !.op = "toggleControl",
                             !.id = controls[1].id,
                             !.data = [enabled |-> ~controls[1].enabled]]]
  /\ UNCHANGED <<otherVars, jobVars, controls, isInitialized, deadlockDetectionInterval, isResetting, cronJobs,
                 createLog>>

\* toggleControl(): updateControl(control.id, {enabled: !control.enabled})
TogglePut(p) ==
  /\ proc[p].pc = "togglePut"
  /\ controls' = UpdateControl(controls, proc[p].id, proc[p].data).controls
  /\ Goto(p, proc[p], "toggleDone")
  /\ UNCHANGED <<otherVars, jobVars, cronJobs, calls, createLog>>

\* purgeControl(): ensureInitialized, getControl, the update to empty lists,
\* then prepare()
PurgeControlCall(r) ==
  /\ proc[<<r, "api">>].pc = "idle"
  /\ EnsureInitialized(r) = "none"
  /\ calls < MaxCalls
  /\ Len(controls) > 0
  /\ calls' = calls + 1
  /\ proc' = [proc EXCEPT ![<<r, "api">>] =
                [Idle EXCEPT !.pc = "ucwrGet", !.op = "purgeControl",
                             !.id = controls[1].id,
                             !.data = [replicas |-> {}, stale |-> {}],
                             !.ret = "prepGet"]]
  /\ UNCHANGED <<otherVars, jobVars, controls, isInitialized, deadlockDetectionInterval, isResetting, cronJobs,
                 createLog>>

\* a cron timer of replica r fires: executeJob reads the Control and, when its
\* stale list is not empty, calls resetJobs, which stops every timer of a stale
\* replica and goes on with initializeJobs; the firing then continues in
\* handleJob
CronTick(r, name) ==
  /\ proc[<<r, "tick">>].pc = "idle"
  /\ name \in DOMAIN cronJobs[r]
  /\ IF Len(controls) > 0 /\ controls[1].stale # {} /\ ~isResetting[r]
        /\ r \in controls[1].stale
     THEN /\ isResetting' = [isResetting EXCEPT ![r] = TRUE]
          /\ cronJobs' = [cronJobs EXCEPT ![r] = EmptyMap]
          /\ proc' = [proc EXCEPT ![<<r, "tick">>] =
                        [Idle EXCEPT !.pc = "ijGet", !.op = "resetJobs",
                                     !.after = "resetFresh"]]
     ELSE UNCHANGED <<isResetting, cronJobs, proc>>
  /\ UNCHANGED <<otherVars, jobVars, controls, isInitialized, deadlockDetectionInterval, calls, createLog>>

\* resetJobs: getControl again and remove this replica from the stale list read
ResetFresh(p) ==
  /\ proc[p].pc = "resetFresh"
  /\ IF Len(controls) > 0 /\ p[1] \in controls[1].stale
     THEN Goto(p, [proc[p] EXCEPT !.id = controls[1].id,
                                  !.data = [stale |-> controls[1].stale \ {p[1]}],
                                  !.attempt = 1, !.ret = "resetDone"], "ucwrGet")
     ELSE Goto(p, proc[p], "resetDone")
  /\ UNCHANGED <<otherVars, jobVars, controls, cronJobs, calls, createLog>>

\* the state after construction of the Managers on an empty storage
InitCtl ==
  /\ now = 0
  /\ uuid = 0
  /\ locks = EmptyMap
  /\ lockTimers = {}
  /\ chain = <<>>
  /\ burst = NoBurst(0)
  /\ last = NoCall
  /\ released = [k \in Keys |-> NoValue]
  /\ jobs = EmptyMap
  /\ jobsByName = EmptyMap
  /\ jobRuns = EmptyMap
  /\ fire = [f \in Firings |-> IdleFiring]
  /\ activeLocks = [r \in Replicas |-> EmptyMap]
  /\ isDestroyed = [r \in Replicas |-> FALSE]
  /\ held = {}
  /\ executedBy = [k \in Instants |-> {}]
  /\ controls = <<>>
  /\ proc = [p \in Procs |-> Idle]
  /\ isInitialized = [r \in Replicas |-> FALSE]
  /\ isResetting = [r \in Replicas |-> FALSE]
  /\ cronJobs = [r \in Replicas |-> EmptyMap]
  /\ managerEnabled \in [Replicas -> BOOLEAN]
  /\ \A r \in Replicas \ CtlReplicas : managerEnabled[r]
  /\ calls = 0
  /\ createLog = NoCreate
  /\ InitExt

\* a step of the call or firing p
Step(p) ==
  \/ PrepareGet(p)
  \/ PrepareCreate(p)
  \/ UcwrGet(p)
  \/ UcwrPut(p)
  \/ PrepareWatch(p)
  \/ PrepareWatchCreate(p)
  \/ InitializeJobsGet(p)
  \/ InitializeJobsFind(p)
  \/ TriggerResetGet(p)
  \/ TogglePut(p)
  \/ ResetFresh(p)

NextCtl ==
  \/ \E r \in CtlReplicas : Initialize(r)
  \/ \E r \in CtlReplicas, name \in JobNames : CreateJobCall(r, name)
  \/ \E r \in CtlReplicas : ToggleControlCall(r)
  \/ \E r \in CtlReplicas : PurgeControlCall(r)
  \/ \E r \in CtlReplicas, name \in JobNames : CronTick(r, name)
  \/ \E p \in Procs : Step(p)

SpecCtl == InitCtl /\ [][NextCtl]_vars

\* the calls in flight and the firings go on, and the timers that run keep
\* firing; nothing obliges a caller to make a call
FairCtl ==
  /\ \A p \in Procs : WF_vars(Step(p))
  /\ \A r \in CtlReplicas : WF_vars(\E name \in JobNames : CronTick(r, name))

SpecCtlFair == InitCtl /\ [][NextCtl]_vars /\ FairCtl

\* the Control row, when there is one
HasControl == Len(controls) > 0
Control == controls[1]

\* ------------------------------------------------------------ Manager: job API
\* the names given to createJob, and those given to updateJob
CREATE_NAMES == {"a", "b", "c", "", WATCH_JOB_NAME}
UPDATE_NAMES == {"a", "b", "c", "d", "", WATCH_JOB_NAME}

\* the names of jobs that are not the caller's to create or change
SYSTEM_NAMES == {WATCH_JOB_NAME, "__x", "system:x", "internal:x"}

PROTECTED_PREFIXES == {"__", "system:", "internal:"}
StartsWith(s, prefix) == Len(s) >= Len(prefix) /\ SubSeq(s, 1, Len(prefix)) = prefix

\* the characters of /^[a-zA-Z0-9_-]+$/
NAME_CHARS ==
  {"a", "b", "c", "d", "e", "f", "g", "h", "i", "j", "k", "l", "m", "n", "o", "p", "q", "r",
   "s", "t", "u", "v", "w", "x", "y", "z", "A", "B", "C", "D", "E", "F", "G", "H", "I", "J",
   "K", "L", "M", "N", "O", "P", "Q", "R", "S", "T", "U", "V", "W", "X", "Y", "Z", "0", "1",
   "2", "3", "4", "5", "6", "7", "8", "9", "_", "-"}
MAX_NAME_LENGTH == 100

\* validateJobData and validateJobAccess on a name: a non-empty string that is
\* not a system job, has no protected prefix, is made of the allowed
\* characters and is not too long
ValidateJobNameNoPrefix(name) ==
  /\ name # ""
  /\ name # WATCH_JOB_NAME
  /\ \A i \in 1..Len(name) : SubSeq(name, i, i) \in NAME_CHARS
  /\ Len(name) <= MAX_NAME_LENGTH
ValidateJobName(name) ==
  /\ name # ""
  /\ name # WATCH_JOB_NAME
  /\ \A prefix \in PROTECTED_PREFIXES : ~StartsWith(name, prefix)
  /\ \A i \in 1..Len(name) : SubSeq(name, i, i) \in NAME_CHARS
  /\ Len(name) <= MAX_NAME_LENGTH

\* triggerReset run without interruption: every replica read becomes stale
TriggerReset(cs) ==
  IF Len(cs) = 0 THEN cs
  ELSE UpdateControl(cs, cs[1].id,
                     MergedData([stale |-> cs[1].replicas,
                                 version |-> <<"version", "reset">>], cs[1])).controls

jobsOtherVars == <<cacheVars, callVars, jobRuns, fireVars, proc, isInitialized, isResetting,
                   deadlockDetectionInterval, extVars,
                   managerEnabled, calls, createLog>>

\* createJob(data), the caller doing nothing else meanwhile
JobsCreate(r, name) ==
  /\ EnsureInitialized(r) = "none"
  /\ ValidateJobName(name)
  /\ Cardinality(DOMAIN jobs) <= MaxJobs
  /\ LET c == CreateJob(jobs, jobsByName,
                        Job(name, "method", TRUE, 1, FALSE, FALSE, FALSE, 1, FALSE))
     IN /\ c.err = "none"
        /\ jobs' = c.jobs
        /\ jobsByName' = c.byName
        /\ controls' = TriggerReset(controls)
  /\ UNCHANGED <<jobsOtherVars, cronJobs>>

\* updateJob(id, {name}): findJob, the validations (the access check of the
\* stored name only when findJob returned the job), storage.updateJob, then
\* triggerReset
JobsUpdate(r, id, name) ==
  /\ EnsureInitialized(r) = "none"
  /\ ValidateJobName(name)
  /\ FindJob(jobs, id) # 0 => ValidateJobName(jobs[id].name)
  /\ LET u == UpdateJob(jobs, jobsByName, id, [name |-> name])
     IN /\ u.err = "none"
        /\ jobs' = u.jobs
        /\ jobsByName' = u.byName
        /\ controls' = TriggerReset(controls)
  /\ UNCHANGED <<jobsOtherVars, cronJobs>>

\* deleteJob(id): findJob, the access check, the timer of the job is stopped,
\* storage.deleteJob
JobsDelete(r, id) ==
  /\ EnsureInitialized(r) = "none"
  /\ FindJob(jobs, id) # 0
  /\ ValidateJobName(jobs[id].name)
  /\ cronJobs' = [cronJobs EXCEPT ![r] = MapDel(@, jobs[id].name)]
  /\ LET d == DeleteJob(jobs, jobsByName, id)
     IN /\ jobs' = d.jobs
        /\ jobsByName' = d.byName
  /\ UNCHANGED <<jobsOtherVars, controls>>

\* the state after initialize() of r1 on an empty storage
InitJobs ==
  /\ now = 0
  /\ uuid = 0
  /\ locks = EmptyMap
  /\ lockTimers = {}
  /\ chain = <<>>
  /\ burst = NoBurst(0)
  /\ last = NoCall
  /\ released = [k \in Keys |-> NoValue]
  /\ jobs = [i \in {1} |-> Job(WATCH_JOB_NAME, "query", TRUE, 1, FALSE, FALSE, FALSE, 1,
                               FALSE)]
  /\ jobsByName = [n \in {WATCH_JOB_NAME} |-> 1]
  /\ jobRuns = EmptyMap
  /\ fire = [f \in Firings |-> IdleFiring]
  /\ activeLocks = [r \in Replicas |-> EmptyMap]
  /\ isDestroyed = [r \in Replicas |-> FALSE]
  /\ held = {}
  /\ executedBy = [k \in Instants |-> {}]
  /\ controls = CreateControl(<<>>, [enabled |-> TRUE, replicas |-> {"r1"}, stale |-> {},
                                     version |-> <<"version", "r1">>]).controls
  /\ proc = [p \in Procs |-> Idle]
  /\ isInitialized = [r \in Replicas |-> r = "r1"]
  /\ isResetting = [r \in Replicas |-> FALSE]
  /\ cronJobs = [r \in Replicas |-> EmptyMap]
  /\ managerEnabled = [r \in Replicas |-> TRUE]
  /\ calls = 0
  /\ createLog = NoCreate
  /\ InitExt

NextJobs ==
  \/ \E r \in CtlReplicas, name \in CREATE_NAMES : JobsCreate(r, name)
  \/ \E r \in CtlReplicas, id \in 1..(MaxJobs + 1), name \in UPDATE_NAMES : JobsUpdate(r, id, name)
  \/ \E r \in CtlReplicas, id \in 1..(MaxJobs + 1) : JobsDelete(r, id)

SpecJobs == InitJobs /\ [][NextJobs]_vars

LiveJobs == {id \in DOMAIN jobs : ~jobs[id].deleted}

\* ------------------------------------------------------------ Manager: scheduler
\* the schedules a caller gives to updateJob, and the types of a job
Crons == {1, 2}
JobTypes == {"inline", "method", "query"}
SchedReplica == "r1"
SchedProcs == {p \in Procs : p[1] = SchedReplica}

\* updateJob(id, {cron}): ensureInitialized, findJob, validateJobData, the
\* access check of the stored name when the job was found
UpdateJobCall(r, id, c) ==
  /\ proc[<<r, "api">>].pc = "idle"
  /\ EnsureInitialized(r) = "none"
  /\ calls < MaxCalls
  /\ calls' = calls + 1
  /\ proc' = [proc EXCEPT ![<<r, "api">>] =
                IF FindJob(jobs, id) # 0 /\ ~ValidateJobName(jobs[id].name) THEN Idle
                ELSE [Idle EXCEPT !.pc = "ujPut", !.op = "updateJob",
                                  !.data = [job |-> id, cron |-> c]]]
  /\ UNCHANGED <<otherVars, jobVars, controls, isInitialized, deadlockDetectionInterval,
                 isResetting, cronJobs, createLog>>

\* updateJob: storage.updateJob(id, data), then triggerReset when the updated
\* job is of type query or method; the Manager's own timers are not touched
UpdateJobPut(p) ==
  /\ proc[p].pc = "ujPut"
  /\ LET u == UpdateJob(jobs, jobsByName, proc[p].data.job, [cron |-> proc[p].data.cron])
     IN /\ jobs' = u.jobs
        /\ jobsByName' = u.byName
        /\ IF u.err = "none" /\ u.jobs[u.id].type \in {"query", "method"}
           THEN Goto(p, proc[p], "trGet")
           ELSE Goto(p, proc[p], "trDone")
  /\ UNCHANGED <<otherVars, controls, cronJobs, calls, createLog>>

\* the Manager of SchedReplica is constructed on a storage that holds one
\* enabled job with a schedule, of any type
InitSched ==
  /\ now = 0
  /\ uuid = 0
  /\ locks = EmptyMap
  /\ lockTimers = {}
  /\ chain = <<>>
  /\ burst = NoBurst(0)
  /\ last = NoCall
  /\ released = [k \in Keys |-> NoValue]
  /\ \E type \in JobTypes :
       jobs = [i \in {1} |-> Job("j", type, TRUE, 1, type = "query", FALSE, FALSE, 1, FALSE)]
  /\ jobsByName = [n \in {"j"} |-> 1]
  /\ jobRuns = EmptyMap
  /\ fire = [f \in Firings |-> IdleFiring]
  /\ activeLocks = [r \in Replicas |-> EmptyMap]
  /\ isDestroyed = [r \in Replicas |-> FALSE]
  /\ held = {}
  /\ executedBy = [k \in Instants |-> {}]
  /\ controls = <<>>
  /\ proc = [p \in Procs |-> Idle]
  /\ isInitialized = [r \in Replicas |-> FALSE]
  /\ isResetting = [r \in Replicas |-> FALSE]
  /\ cronJobs = [r \in Replicas |-> EmptyMap]
  /\ managerEnabled = [r \in Replicas |-> TRUE]
  /\ calls = 0
  /\ createLog = NoCreate
  /\ InitExt

NextSched ==
  \/ Initialize(SchedReplica)
  \/ \E id \in 1..2, c \in Crons : UpdateJobCall(SchedReplica, id, c)
  \/ \E p \in SchedProcs : UpdateJobPut(p)
  \/ ToggleControlCall(SchedReplica)
  \/ \E name \in JobNames : CronTick(SchedReplica, name)
  \/ \E p \in SchedProcs : Step(p)

\* the calls in flight go on and the timers that run keep firing
FairSched ==
  /\ \A p \in SchedProcs : WF_vars(Step(p)) /\ WF_vars(UpdateJobPut(p))
  /\ WF_vars(\E name \in JobNames : CronTick(SchedReplica, name))

SpecSched == InitSched /\ [][NextSched]_vars /\ FairSched

\* a second initialize() called on the Manager of SchedReplica while the first
\* is in flight goes on as the first does, since isInitialized is set when
\* prepare() has resolved
Again == <<SchedReplica, "again">>
InitializeAgain ==
  /\ proc[Again].pc = "idle"
  /\ ~isInitialized[SchedReplica]
  /\ proc' = [proc EXCEPT ![Again] = [Idle EXCEPT !.pc = "prepGet", !.op = "initialize"]]
  /\ UNCHANGED <<otherVars, jobVars, controls, isInitialized, deadlockDetectionInterval,
                 isResetting, cronJobs, calls, createLog>>

\* the Manager of SchedReplica with two callers of initialize()
InitTwice ==
  /\ now = 0
  /\ uuid = 0
  /\ locks = EmptyMap
  /\ lockTimers = {}
  /\ chain = <<>>
  /\ burst = NoBurst(0)
  /\ last = NoCall
  /\ released = [k \in Keys |-> NoValue]
  /\ \E type \in JobTypes :
       jobs = [i \in {1} |-> Job("j", type, TRUE, 1, type = "query", FALSE, FALSE, 1, FALSE)]
  /\ jobsByName = [n \in {"j"} |-> 1]
  /\ jobRuns = EmptyMap
  /\ fire = [f \in Firings |-> IdleFiring]
  /\ activeLocks = [r \in Replicas |-> EmptyMap]
  /\ isDestroyed = [r \in Replicas |-> FALSE]
  /\ held = {}
  /\ executedBy = [k \in Instants |-> {}]
  /\ controls = <<>>
  /\ proc = [p \in Procs \cup {Again} |-> Idle]
  /\ isInitialized = [r \in Replicas |-> FALSE]
  /\ isResetting = [r \in Replicas |-> FALSE]
  /\ cronJobs = [r \in Replicas |-> EmptyMap]
  /\ managerEnabled = [r \in Replicas |-> TRUE]
  /\ calls = 0
  /\ createLog = NoCreate
  /\ InitExt

NextTwice ==
  \/ NextSched
  \/ InitializeAgain
  \/ Step(Again)

SpecTwice == InitTwice /\ [][NextTwice]_vars

\* ------------------------------------------------------------ Manager.destroy
destroyOtherVars == <<now, uuid, callVars, jobVars, jobRuns, fire, executedBy, controls, proc,
                      isInitialized, isResetting, managerEnabled, calls, createLog, apiLog,
                      batches, batchCalls>>

\* the entries of an activeLocks map, as <<key, lockValue>> pairs
Entries(al) == {<<key, al[key].lockValue>> : key \in DOMAIN al}

\* activeLocks.clear() after the release loop, whatever the releases did
ClearKeepFailed(al, failed) == [key \in {e[1] : e \in failed} \cap DOMAIN al |-> al[key]]
Clear(al, failed) == EmptyMap

\* destroy(): returns at once on a destroyed Manager; else sets isDestroyed,
\* stops and forgets every cron timer, clears the watchdog interval the field
\* holds, and starts the release loop when releaseLocksOnShutdown is set and
\* there are active locks (without them activeLocks.clear() and the call of
\* cache.destroy() follow at once)
DestroyCall(r) ==
  /\ destroyCall[r].calls < MaxDestroyCalls
  /\ IF isDestroyed[r]
     THEN /\ destroyCall' = [destroyCall EXCEPT ![r].calls = @ + 1]
          /\ UNCHANGED <<isDestroyed, cronJobs, deadlockDetectionInterval, activeLocks>>
     ELSE LET d == destroyCall[r]
              loop == d.releaseLocksOnShutdown /\ activeLocks[r] # EmptyMap
          IN /\ isDestroyed' = [isDestroyed EXCEPT ![r] = TRUE]
             /\ cronJobs' = [cronJobs EXCEPT ![r] = EmptyMap]
             /\ deadlockDetectionInterval' =
                  [deadlockDetectionInterval EXCEPT ![r] = IF @ > 0 THEN @ - 1 ELSE 0]
             /\ activeLocks' = IF d.releaseLocksOnShutdown /\ ~loop
                               THEN [activeLocks EXCEPT ![r] = Clear(@, {})]
                               ELSE activeLocks
             /\ destroyCall' = [destroyCall EXCEPT ![r] =
                  [d EXCEPT !.calls = @ + 1, !.atCall = Entries(activeLocks[r]),
                            !.pc = IF loop THEN "release" ELSE "cacheDestroy"]]
  /\ UNCHANGED <<destroyOtherVars, locks, lockTimers, held>>

\* destroy(): cache.releaseLock(key, lockInfo.lockValue) for the entry of the
\* loop; the call may throw, which is logged; after the last entry,
\* activeLocks.clear() and the call of cache.destroy()
DestroyRelease(r) ==
  /\ destroyCall[r].pc = "release"
  /\ \E e \in destroyCall[r].atCall \ destroyCall[r].releases, fails \in BOOLEAN :
       LET d == destroyCall[r]
           rl == ReleaseLock(locks, lockTimers, e[1], e[2])
           failed == IF fails THEN d.failed \cup {e} ELSE d.failed
           final == d.atCall \ d.releases = {e}
       IN /\ locks' = IF fails THEN locks ELSE rl.locks
          /\ lockTimers' = IF fails THEN lockTimers ELSE rl.timers
          /\ held' = IF fails THEN held
                     ELSE {h \in held : ~(h.replica = r /\ h.value = e[2])}
          /\ activeLocks' = IF final THEN [activeLocks EXCEPT ![r] = Clear(@, failed)]
                            ELSE activeLocks
          /\ destroyCall' = [destroyCall EXCEPT ![r] =
               [d EXCEPT !.releases = @ \cup {e}, !.failed = failed,
                         !.pc = IF final THEN "cacheDestroy" ELSE "release"]]
  /\ UNCHANGED <<destroyOtherVars, isDestroyed, cronJobs, deadlockDetectionInterval>>

\* destroy(): cache.destroy() has resolved and destroy() returns
DestroyReturn(r) ==
  /\ destroyCall[r].pc = "cacheDestroy"
  /\ destroyCall' = [destroyCall EXCEPT ![r].pc = "done"]
  /\ UNCHANGED <<destroyOtherVars, locks, lockTimers, held, activeLocks, isDestroyed,
                 cronJobs, deadlockDetectionInterval>>

\* the scheduler and the Control calls of SchedReplica, with purgeControl and
\* destroy
NextDestroy ==
  \/ NextSched
  \/ PurgeControlCall(SchedReplica)
  \/ DestroyCall(SchedReplica)
  \/ DestroyReturn(SchedReplica)

SpecDestroy == InitSched /\ [][NextDestroy]_vars

\* the firing of SchedReplica and destroy() on it; its Manager is constructed
\* with releaseLocksOnShutdown set or not
InitShutdown ==
  /\ now = 0
  /\ uuid = 0
  /\ locks = EmptyMap
  /\ lockTimers = {}
  /\ chain = <<>>
  /\ burst = NoBurst(0)
  /\ last = NoCall
  /\ released = [k \in Keys |-> NoValue]
  /\ \E persist \in BOOLEAN, distributed \in BOOLEAN, runOnce \in BOOLEAN :
       jobs = [i \in {1} |-> Job(FiredJob, "inline", TRUE, 1, FALSE, persist,
                                 distributed, 1, runOnce)]
  /\ jobsByName = [n \in {FiredJob} |-> 1]
  /\ jobRuns = EmptyMap
  /\ fire = [f \in Firings |-> IdleFiring]
  /\ activeLocks = [r \in Replicas |-> EmptyMap]
  /\ isDestroyed = [r \in Replicas |-> FALSE]
  /\ held = {}
  /\ executedBy = [k \in Instants |-> {}]
  /\ controls = <<>>
  /\ proc = [p \in Procs |-> Idle]
  /\ isInitialized = [r \in Replicas |-> FALSE]
  /\ isResetting = [r \in Replicas |-> FALSE]
  /\ cronJobs = [r \in Replicas |-> EmptyMap]
  /\ managerEnabled = [r \in Replicas |-> TRUE]
  /\ calls = 0
  /\ createLog = NoCreate
  /\ deadlockDetectionInterval = [r \in Replicas |-> 0]
  /\ apiLog = NoApi
  /\ batches = EmptyMap
  /\ batchCalls = <<>>
  /\ \E option \in BOOLEAN :
       destroyCall = [r \in Replicas |-> [NoDestroy EXCEPT !.releaseLocksOnShutdown = option]]

NextShutdown ==
  \/ \E k \in Instants : CronFire(SchedReplica, k)
  \/ \E k \in Instants : HandleFind(SchedReplica, k)
  \/ \E k \in Instants : HandleCreateRun(SchedReplica, k)
  \/ \E k \in Instants : HandleAcquire(SchedReplica, k)
  \/ \E k \in Instants : HandleAcquireFail(SchedReplica, k)
  \/ \E k \in Instants : ExecEnd(SchedReplica, k)
  \/ \E k \in Instants : HandleRunOnce(SchedReplica, k)
  \/ \E k \in Instants : HandleComplete(SchedReplica, k)
  \/ \E k \in Instants : HandleMarkFailed(SchedReplica, k)
  \/ \E k \in Instants : HandleRelease(SchedReplica, k)
  \/ \E k \in Instants : HandleReleaseFail(SchedReplica, k)
  \/ LockTimerFire
  \/ Tick
  \/ DestroyCall(SchedReplica)
  \/ DestroyRelease(SchedReplica)
  \/ DestroyReturn(SchedReplica)

SpecShutdown == InitShutdown /\ [][NextShutdown]_vars

\* ------------------------------------------------------------ Manager: public API
MutationApis == {"createJob", "updateJob", "toggleJob", "enableJob", "disableJob", "deleteJob"}
TargetApis == {"updateJob", "toggleJob", "enableJob", "disableJob", "deleteJob", "getJob"}
PublicApis == MutationApis \cup {"getJob", "listJobs", "listJobRuns", "getControl",
                                 "toggleControl", "purgeControl"}

VALIDATION == "validation"
NOT_FOUND == "Job not found"

apiOtherVars == <<cacheVars, callVars, jobRuns, fireVars, proc, isInitialized, isResetting,
                  deadlockDetectionInterval, managerEnabled, calls, createLog, batches,
                  batchCalls, destroyCall>>

\* the error a public API throws before it writes anything, "none" when it
\* goes on: ensureInitialized first, then the checks of the operation in the
\* order of its code
ApiError(r, op, id, name) ==
  LET found == FindJob(jobs, id) # 0
  IN IF EnsureInitialized(r) # "none" THEN EnsureInitialized(r)
     ELSE IF op = "createJob"
     THEN IF ValidateJobName(name) THEN "none" ELSE VALIDATION
     ELSE IF op = "updateJob"
     THEN IF name = "" \/ (found /\ ~ValidateJobName(jobs[id].name)) \/ ~ValidateJobName(name)
          THEN VALIDATION ELSE "none"
     ELSE IF op \in {"toggleJob", "enableJob", "disableJob", "deleteJob"}
     THEN IF ~found THEN NOT_FOUND
          ELSE IF ~ValidateJobName(jobs[id].name) THEN VALIDATION ELSE "none"
     ELSE "none"

\* a call of a public API that throws: nothing is written
ApiThrow(r, op, id, name) ==
  /\ ApiError(r, op, id, name) # "none"
  /\ apiLog' = [op |-> op, replica |-> r, err |-> ApiError(r, op, id, name),
                name |-> IF op \in {"createJob", "updateJob"} THEN name ELSE "",
                current |-> IF op \in TargetApis /\ FindJob(jobs, id) # 0
                            THEN jobs[id].name ELSE "",
                data |-> {}]
  /\ UNCHANGED <<apiOtherVars, jobVars, controls, cronJobs>>

\* toggleJob(id), enableJob(id), disableJob(id): findJob, the access check,
\* the job returned as it is when it is already in the state asked for, else
\* updateJob(id, {enabled})
JobsToggle(r, op, id) ==
  /\ EnsureInitialized(r) = "none"
  /\ FindJob(jobs, id) # 0
  /\ ValidateJobName(jobs[id].name)
  /\ LET enabled == IF op = "toggleJob" THEN ~jobs[id].enabled ELSE op = "enableJob"
         u == UpdateJob(jobs, jobsByName, id, [enabled |-> enabled])
     IN IF op # "toggleJob" /\ jobs[id].enabled = enabled
        THEN UNCHANGED <<jobVars, controls>>
        ELSE /\ jobs' = u.jobs
             /\ jobsByName' = u.byName
             /\ controls' = IF u.jobs[id].type \in {"query", "method"}
                            THEN TriggerReset(controls) ELSE controls
  /\ UNCHANGED <<jobsOtherVars, cronJobs>>

isWatchJobNever(job) == FALSE
isWatchJob(job) == job.name = WATCH_JOB_NAME

\* getJob(id): findJob, null for the watch job; the answer is a set of ids,
\* empty for null
GetJob(r, id) ==
  /\ EnsureInitialized(r) = "none"
  /\ LET job == FindJob(jobs, id)
     IN apiLog' = [op |-> "getJob", replica |-> r, err |-> "none", name |-> "",
                   current |-> IF job # 0 THEN jobs[job].name ELSE "",
                   data |-> IF job # 0 /\ isWatchJob(jobs[job]) THEN {}
                            ELSE IF job # 0 THEN {job} ELSE {}]
  /\ UNCHANGED <<apiOtherVars, jobVars, controls, cronJobs>>

\* the filters given to listJobs: a field left out is "" for the name and
\* "undefined" for the others (enabled is given as "true" or "false")
NoFilter == [name |-> "", enabled |-> "undefined", deleted |-> "undefined"]
JobFilters ==
  {NoFilter, [NoFilter EXCEPT !.name = WATCH_JOB_NAME], [NoFilter EXCEPT !.name = "a"],
   [NoFilter EXCEPT !.enabled = "true"], [NoFilter EXCEPT !.deleted = "not-null"],
   [NoFilter EXCEPT !.deleted = "null"]}

\* storage.findJobs(filter): the watch job is always left out; the answer is
\* the set of the ids found (its pages are not modelled)
FindJobsFilter(js, filter) ==
  {id \in DOMAIN js :
     /\ js[id].name # WATCH_JOB_NAME
     /\ ~(filter.name # "" /\ js[id].name # filter.name)
     /\ ~(filter.enabled # "undefined" /\ js[id].enabled # (filter.enabled = "true"))
     /\ ~(filter.deleted = "not-null" /\ ~js[id].deleted)
     /\ ~(filter.deleted = "null" /\ js[id].deleted)}

\* listJobs(filter): storage.findJobs, then the watch job is filtered out
ListJobs(r, filter) ==
  /\ EnsureInitialized(r) = "none"
  /\ apiLog' = [op |-> "listJobs", replica |-> r, err |-> "none", name |-> filter.name,
                current |-> "", filter |-> filter,
                data |-> {id \in FindJobsFilter(jobs, filter) : ~isWatchJob(jobs[id])}]
  /\ UNCHANGED <<apiOtherVars, jobVars, controls, cronJobs>>

\* listJobRuns() and getControl(): one read of storage
ListJobRuns(r) ==
  /\ EnsureInitialized(r) = "none"
  /\ apiLog' = [NoApi EXCEPT !.op = "listJobRuns", !.replica = r, !.data = DOMAIN jobRuns]
  /\ UNCHANGED <<apiOtherVars, jobVars, controls, cronJobs>>

GetControl(r) ==
  /\ EnsureInitialized(r) = "none"
  /\ apiLog' = [NoApi EXCEPT !.op = "getControl", !.replica = r,
                             !.data = {controls[i].id : i \in 1..Len(controls)}]
  /\ UNCHANGED <<apiOtherVars, jobVars, controls, cronJobs>>

\* the calls made on the Manager of SchedReplica before initialize(), while
\* it runs, after it and after destroy()
NextGate ==
  \/ Initialize(SchedReplica)
  \/ \E p \in SchedProcs : Step(p)
  \/ UpdateJobCall(SchedReplica, 1, 2)
  \/ \E p \in SchedProcs : UpdateJobPut(p)
  \/ ToggleControlCall(SchedReplica)
  \/ PurgeControlCall(SchedReplica)
  \/ \E name \in JobNames : CronTick(SchedReplica, name)
  \/ DestroyCall(SchedReplica)
  \/ DestroyReturn(SchedReplica)
  \/ \E op \in PublicApis : ApiThrow(SchedReplica, op, 1, "a")
  \/ GetJob(SchedReplica, 1)
  \/ ListJobs(SchedReplica, NoFilter)
  \/ ListJobRuns(SchedReplica)
  \/ GetControl(SchedReplica)
  \/ JobsDelete(SchedReplica, 1)

\* the storage holds a method job
InitGate == InitSched /\ jobs[1].type = "method"

SpecGate == InitGate /\ [][NextGate]_vars

\* the job API of r1 with every kind of name
API_NAMES == {"a", "b", ""} \cup SYSTEM_NAMES
NextNames ==
  \/ \E name \in API_NAMES : JobsCreate("r1", name)
  \/ \E id \in 1..(MaxJobs + 1), name \in API_NAMES : JobsUpdate("r1", id, name)
  \/ \E id \in 1..(MaxJobs + 1) : JobsDelete("r1", id)
  \/ \E op \in {"toggleJob", "enableJob", "disableJob"}, id \in 1..(MaxJobs + 1) :
       JobsToggle("r1", op, id)
  \/ \E name \in API_NAMES : ApiThrow("r1", "createJob", 1, name)
  \/ \E id \in 1..(MaxJobs + 1), name \in API_NAMES : ApiThrow("r1", "updateJob", id, name)
  \/ \E op \in MutationApis \ {"createJob", "updateJob"}, id \in 1..(MaxJobs + 1) :
       ApiThrow("r1", op, id, "")
  \/ \E id \in 1..(MaxJobs + 1) : GetJob("r1", id)
  \/ \E filter \in JobFilters : ListJobs("r1", filter)

SpecNames == InitJobs /\ [][NextNames]_vars

\* ------------------------------------------------------------ batch counters
\* the caches and the job names of the incrementBatch calls
BatchCaches == {"memory", "redis"}
BatchJobs == {"a", "b"}
KEY_PREFIX == "cron:"

\* the key of the counter of a job: the job name in the Map of InMemoryCache,
\* key(`batch:${jobName}`) in Redis
BatchKey(cache, job) ==
  IF cache = "memory" THEN <<cache, job>> ELSE <<cache, KEY_PREFIX \o "batch:" \o job>>

\* getBatch(jobName): the counter, 0 when absent
GetBatch(b, cache, job) ==
  IF BatchKey(cache, job) \in DOMAIN b THEN b[BatchKey(cache, job)] ELSE 0

\* the operation of incrementBatch: batches.get(jobName) ?? 0, plus one, set;
\* INCR in Redis. seen is the counter as it was when the call was made
IncrementBatchSeen(b, cache, job, seen) ==
  [batches |-> MapSet(b, BatchKey(cache, job), seen + 1), value |-> seen + 1]
IncrementBatch(b, cache, job, seen) ==
  LET newValue == GetBatch(b, cache, job) + 1
  IN [batches |-> MapSet(b, BatchKey(cache, job), newValue), value |-> newValue]

batchOtherVars == <<cacheVars, callVars, jobVars, jobRuns, fireVars, controls, proc,
                    isInitialized, isResetting, cronJobs, managerEnabled, calls, createLog,
                    deadlockDetectionInterval, apiLog, destroyCall>>

Pending(cache) ==
  {i \in 1..Len(batchCalls) : batchCalls[i].cache = cache /\ batchCalls[i].pc = "pending"}

\* incrementBatch(jobName) is called: the operation is chained after the
\* lockPromise of the InMemoryCache, or the INCR command is sent to Redis
IncrementBatchCall(cache, job) ==
  /\ Len(batchCalls) < MaxIncr
  /\ batchCalls' = Append(batchCalls, [cache |-> cache, job |-> job, pc |-> "pending",
                                       seen |-> GetBatch(batches, cache, job), value |-> 0])
  /\ UNCHANGED <<batches, batchOtherVars>>

BatchRun(i) ==
  LET c == batchCalls[i]
      r == IncrementBatch(batches, c.cache, c.job, c.seen)
  IN /\ batches' = r.batches
     /\ batchCalls' = [batchCalls EXCEPT ![i] = [c EXCEPT !.pc = "done", !.value = r.value]]
     /\ UNCHANGED batchOtherVars

\* withLock runs the operations of the InMemoryCache in the order of the calls
WithLockIncrement ==
  \E i \in Pending("memory") :
    /\ \A j \in Pending("memory") : i <= j
    /\ BatchRun(i)

\* Redis runs the commands it received one at a time, in the order they arrive
RedisIncr ==
  \E i \in Pending("redis") : BatchRun(i)

NextBatch ==
  \/ \E cache \in BatchCaches, job \in BatchJobs : IncrementBatchCall(cache, job)
  \/ WithLockIncrement
  \/ RedisIncr

SpecBatch == InitCache /\ [][NextBatch]_vars

\* the calls made for a counter, and those of them that have returned
CallsOf(cache, job) ==
  {i \in 1..Len(batchCalls) : batchCalls[i].cache = cache /\ batchCalls[i].job = job}
Returned(cache, job) == {i \in CallsOf(cache, job) : batchCalls[i].pc = "done"}

\* ------------------------------------------------------------ Cache fallbacks
\* the operations of the Cache interface other than destroy
LockOps == {"acquireLock", "releaseLock", "extendLock"}
BatchOps == {"incrementBatch", "getBatch", "resetBatch"}
CacheOps == LockOps \cup BatchOps \cup
            {"setJobContext", "getJobContext", "deleteJobContext", "isHealthy", "cleanup",
             "pingReplica"}

NotAcquired == [acquired |-> FALSE, lockValue |-> NoValue, expiresAt |-> 0]

\* the value each operation returns from its catch clause (InMemoryCache), or
\* gives to safeOperation as its fallback (RedisCache)
Fallback(op) ==
  CASE op = "acquireLock" -> NotAcquired
    [] op \in {"releaseLock", "extendLock", "isHealthy", "pingReplica"} -> FALSE
    [] op = "getJobContext" -> "null"
    [] op = "getBatch" -> 0
    [] op = "incrementBatch" -> 1
    [] OTHER -> "undefined"

\* what an operation can answer when nothing fails, for the operations whose
\* data (contexts, replicas, the Redis server) is not part of this model
Answers(op) ==
  CASE op = "acquireLock" ->
         {NotAcquired, [acquired |-> TRUE, lockValue |-> FreshValue(1), expiresAt |-> 1]}
    [] op \in {"releaseLock", "extendLock", "isHealthy", "pingReplica"} -> BOOLEAN
    [] op = "getJobContext" -> {"null", "context"}
    [] op \in {"getBatch", "incrementBatch"} -> 1..2
    [] OTHER -> {"undefined"}

\* an operation that has returned or thrown
Returns(v) == [threw |-> FALSE, result |-> v]
Throws == [threw |-> TRUE, result |-> "error"]

\* safeOperation of RedisCache and the try / catch of each InMemoryCache
\* operation: an error becomes the fallback
SafeOperationRethrow(outcome, fallback) == outcome
SafeOperation(outcome, fallback) ==
  IF outcome.threw THEN Returns(fallback) ELSE outcome

\* the operation on the InMemoryCache of replica r, inside withLock, which
\* throws when the cache has been destroyed: [outcome, locks, timers, batches]
InMemoryOperation(r, op, key, value, ttlMs, answer) ==
  LET same == [locks |-> locks, timers |-> lockTimers, batches |-> batches]
      lockOp == CASE op = "acquireLock" -> AcquireLock(locks, lockTimers, key, ttlMs, value, now)
                  [] op = "releaseLock" -> ReleaseLock(locks, lockTimers, key, value)
                  [] OTHER -> ExtendLock(locks, lockTimers, key, value, ttlMs, now)
      inc == IncrementBatch(batches, "memory", key, 0)
  IN IF CacheDown(r) THEN [outcome |-> Throws] @@ same
     ELSE IF op \in LockOps
     THEN [outcome |-> Returns(lockOp.res), locks |-> lockOp.locks, timers |-> lockOp.timers,
           batches |-> batches]
     ELSE IF op = "incrementBatch"
     THEN [outcome |-> Returns(inc.value), batches |-> inc.batches] @@ same
     ELSE IF op = "getBatch"
     THEN [outcome |-> Returns(GetBatch(batches, "memory", key))] @@ same
     ELSE IF op = "resetBatch"
     THEN [outcome |-> Returns("undefined"),
           batches |-> MapDel(batches, BatchKey("memory", key))] @@ same
     ELSE [outcome |-> Returns(answer)] @@ same

fallbackOtherVars == <<now, uuid, callVars, jobVars, jobRuns, fireVars, controls, proc,
                       isInitialized, isResetting, cronJobs, managerEnabled, calls, createLog,
                       deadlockDetectionInterval, batchCalls, destroyCall>>

\* a call of an operation of the InMemoryCache of replica r
InMemoryCall(r, op, key, value, ttlMs) ==
  \E answer \in Answers(op) :
    LET o == InMemoryOperation(r, op, key, value, ttlMs, answer)
        ret == SafeOperation(o.outcome, Fallback(op))
    IN /\ op = "incrementBatch" => GetBatch(batches, "memory", key) < MaxIncr
       /\ locks' = o.locks
       /\ lockTimers' = o.timers
       /\ batches' = o.batches
       /\ apiLog' = [op |-> op, cache |-> "memory", failed |-> o.outcome.threw,
                     threw |-> ret.threw, result |-> ret.result]
       /\ UNCHANGED fallbackOtherVars

\* a call of an operation of the RedisCache: the command fails (the connection
\* is down, the server answers with an error) or Redis answers
RedisCall(op) ==
  \E fails \in BOOLEAN, answer \in Answers(op) :
    LET outcome == IF fails THEN Throws ELSE Returns(answer)
        ret == SafeOperation(outcome, Fallback(op))
    IN /\ apiLog' = [op |-> op, cache |-> "redis", failed |-> fails, threw |-> ret.threw,
                     result |-> ret.result]
       /\ UNCHANGED <<fallbackOtherVars, locks, lockTimers, batches>>

\* the caches of SchedReplica, used before and after destroy()
NextFallback ==
  \/ \E op \in LockOps, value \in GivenValues \cup {FreshValue(1)} :
       InMemoryCall(SchedReplica, op, "a", value, 1)
  \/ \E op \in CacheOps \ LockOps : InMemoryCall(SchedReplica, op, "a", NoValue, 0)
  \/ \E op \in CacheOps : RedisCall(op)
  \/ DestroyCall(SchedReplica)
  \/ DestroyReturn(SchedReplica)

SpecFallback == InitCache /\ [][NextFallback]_vars

\* ------------------------------------------------------------ Manager: replica health check
\* two Managers on one storage, neither with a cache that tracks the replicas:
\* r1 has a cache without pingReplica, r2 the default InMemoryCache
CacheOf(r) == IF r = "r1" THEN "absent" ELSE "memory"

StepPing(p) ==
  \/ PrepareGetWith(p, CacheOf(p[1]))
  \/ PrepareCreate(p)
  \/ UcwrGet(p)
  \/ UcwrPut(p)
  \/ PrepareWatch(p)
  \/ PrepareWatchCreate(p)
  \/ InitializeJobsGet(p)
  \/ InitializeJobsFind(p)
  \/ TriggerResetGet(p)

NextPing ==
  \/ \E r \in CtlReplicas : Initialize(r)
  \/ \E r \in CtlReplicas, name \in JobNames : CreateJobCall(r, name)
  \/ \E p \in Procs : StepPing(p)

SpecPing == InitCtl /\ [][NextPing]_vars

\* ------------------------------------------------------------ Manager: concurrent initialize
\* three Managers call initialize() on one empty storage, with a cache on
\* which every replica answers the ping
JoinProcs == Replicas \X {"api"}

InitJoin ==
  /\ now = 0
  /\ uuid = 0
  /\ locks = EmptyMap
  /\ lockTimers = {}
  /\ chain = <<>>
  /\ burst = NoBurst(0)
  /\ last = NoCall
  /\ released = [k \in Keys |-> NoValue]
  /\ jobs = EmptyMap
  /\ jobsByName = EmptyMap
  /\ jobRuns = EmptyMap
  /\ fire = [f \in Firings |-> IdleFiring]
  /\ activeLocks = [r \in Replicas |-> EmptyMap]
  /\ isDestroyed = [r \in Replicas |-> FALSE]
  /\ held = {}
  /\ executedBy = [k \in Instants |-> {}]
  /\ controls = <<>>
  /\ proc = [p \in JoinProcs |-> Idle]
  /\ isInitialized = [r \in Replicas |-> FALSE]
  /\ isResetting = [r \in Replicas |-> FALSE]
  /\ cronJobs = [r \in Replicas |-> EmptyMap]
  /\ managerEnabled = [r \in Replicas |-> TRUE]
  /\ calls = 0
  /\ createLog = NoCreate
  /\ InitExt

StepJoin(p) ==
  \/ PrepareGetWith(p, "alive")
  \/ PrepareCreate(p)
  \/ UcwrGet(p)
  \/ UcwrPut(p)
  \/ PrepareWatch(p)
  \/ PrepareWatchCreate(p)
  \/ InitializeJobsGet(p)
  \/ InitializeJobsFind(p)

NextJoin ==
  \/ \E r \in Replicas : Initialize(r)
  \/ \E p \in JoinProcs : StepJoin(p)

SpecJoin == InitJoin /\ [][NextJoin]_vars

\* ------------------------------------------------------------ Manager: retried Control update
\* one Manager on a Storage that it shares with another writer, which stores a
\* new Control.version or clears the storage between the steps of the Manager
MaxBumps == 5
RetryProc == <<"r1", "api">>
Bumps == IF Len(controls) > 0 /\ controls[1].version[1] = "bump" THEN controls[1].version[2]
         ELSE 0

\* the other writer stores a Control.version of its own
ExternalBump ==
  /\ Len(controls) > 0
  /\ Bumps < MaxBumps
  /\ proc[RetryProc].pc \in {"ucwrGet", "ucwrPut"}
  /\ controls' = [controls EXCEPT ![1].version = <<"bump", Bumps + 1>>]
  /\ UNCHANGED <<otherVars, jobVars, proc, isInitialized, isResetting, cronJobs, calls,
                 createLog, deadlockDetectionInterval>>

\* InMemoryStorage.clear(), called by another holder of the storage
StorageClear ==
  /\ Len(controls) > 0
  /\ proc[RetryProc].pc \in {"ucwrGet", "ucwrPut"}
  /\ controls' = <<>>
  /\ jobs' = EmptyMap
  /\ jobsByName' = EmptyMap
  /\ jobRuns' = EmptyMap
  /\ UNCHANGED <<cacheVars, callVars, fireVars, managerEnabled, extVars, proc, isInitialized,
                 isResetting, cronJobs, calls, createLog, deadlockDetectionInterval>>

StepRetry(p) ==
  \/ PrepareGet(p)
  \/ PrepareCreate(p)
  \/ UcwrGet(p)
  \/ UcwrPut(p)
  \/ PrepareWatch(p)
  \/ PrepareWatchCreate(p)
  \/ InitializeJobsGet(p)
  \/ InitializeJobsFind(p)
  \/ TriggerResetGet(p)

NextRetry ==
  \/ Initialize("r1")
  \/ \E name \in JobNames : CreateJobCall("r1", name)
  \/ PurgeControlCall("r1")
  \/ StepRetry(RetryProc)
  \/ ExternalBump
  \/ StorageClear

SpecRetry == InitCtl /\ [][NextRetry]_vars

\* ------------------------------------------------------------ Manager: deadlock detection
\* the clock runs long enough for a lock to be older than twice its TTL
MaxLate == 3
LateTick == TickTo(MaxLate)

\* a lock that counts as stale after the whole TTL
StalenessThresholdTtl(ttlMs) == ttlMs
\* stalenessThreshold = lockInfo.ttlMs * 2
StalenessThreshold(ttlMs) == ttlMs * 2

\* the keys detectAndHandleDeadlocks collects: lockAge > stalenessThreshold
StaleLocks(al, t) ==
  {key \in DOMAIN al : t - al[key].acquiredAt > StalenessThreshold(al[key].ttlMs)}

\* the interval callback of replica r: detectAndHandleDeadlocks. The Manager
\* of this model tracks the one key lock:a, so the collecting loop and the
\* releaseLock call of the one stale key run without another step in between.
\* The release returns true or false, or throws; the entry is deleted in all
\* three cases.
DetectAndHandleDeadlocks(r) ==
  /\ deadlockDetectionInterval[r] > 0
  /\ ~isDestroyed[r]
  /\ activeLocks[r] # EmptyMap
  /\ LET key == LockKey(FiredJob)
         stale == StaleLocks(activeLocks[r], now)
     IN IF key \in stale
        THEN \E throws \in BOOLEAN :
               LET info == activeLocks[r][key]
                   rl == ReleaseLock(locks, lockTimers, key, info.lockValue)
                   done == ~throws /\ ~CacheDown(r)
               IN /\ locks' = IF done THEN rl.locks ELSE locks
                  /\ lockTimers' = IF done THEN rl.timers ELSE lockTimers
                  /\ held' = IF done
                             THEN {h \in held : ~(h.replica = r /\ h.value = info.lockValue)}
                             ELSE held
                  /\ activeLocks' = [activeLocks EXCEPT ![r] = MapDel(@, key)]
                  /\ apiLog' = [op |-> "detectAndHandleDeadlocks", replica |-> r,
                                stale |-> stale, value |-> info.lockValue,
                                released |-> IF throws THEN "throws"
                                             ELSE IF done /\ rl.res THEN "true" ELSE "false"]
        ELSE /\ apiLog' = [op |-> "detectAndHandleDeadlocks", replica |-> r,
                           stale |-> stale, value |-> NoValue, released |-> "none"]
             /\ UNCHANGED <<locks, lockTimers, held, activeLocks>>
  /\ UNCHANGED <<now, uuid, callVars, jobVars, jobRuns, fire, isDestroyed, executedBy, controls,
                 proc, isInitialized, isResetting, cronJobs, managerEnabled, calls, createLog,
                 deadlockDetectionInterval, batches, batchCalls, destroyCall>>

\* two initialized replicas with the distributed job "a" and their watchdogs
InitWatchdog ==
  /\ now = 0
  /\ uuid = 0
  /\ locks = EmptyMap
  /\ lockTimers = {}
  /\ chain = <<>>
  /\ burst = NoBurst(0)
  /\ last = NoCall
  /\ released = [k \in Keys |-> NoValue]
  /\ \E ttl \in TtlChoices :
       jobs = [i \in {1} |-> Job(FiredJob, "inline", TRUE, 1, FALSE, FALSE, TRUE, ttl, FALSE)]
  /\ jobsByName = [n \in {FiredJob} |-> 1]
  /\ jobRuns = EmptyMap
  /\ fire = [f \in Firings |-> IdleFiring]
  /\ activeLocks = [r \in Replicas |-> EmptyMap]
  /\ isDestroyed = [r \in Replicas |-> FALSE]
  /\ held = {}
  /\ executedBy = [k \in Instants |-> {}]
  /\ controls = <<>>
  /\ proc = [p \in Procs |-> Idle]
  /\ isInitialized = [r \in Replicas |-> r \in CtlReplicas]
  /\ isResetting = [r \in Replicas |-> FALSE]
  /\ cronJobs = [r \in Replicas |-> EmptyMap]
  /\ managerEnabled = [r \in Replicas |-> TRUE]
  /\ calls = 0
  /\ createLog = NoCreate
  /\ deadlockDetectionInterval = [r \in Replicas |-> IF r \in CtlReplicas THEN 1 ELSE 0]
  /\ apiLog = NoApi
  /\ batches = EmptyMap
  /\ batchCalls = <<>>
  /\ destroyCall = [r \in Replicas |-> NoDestroy]

NextWatchdog ==
  \/ \E r \in CtlReplicas, k \in Instants : CronFire(r, k)
  \/ \E r \in CtlReplicas, k \in Instants : HandleFind(r, k)
  \/ \E r \in CtlReplicas, k \in Instants : HandleAcquire(r, k)
  \/ \E r \in CtlReplicas, k \in Instants : HandleAcquireFail(r, k)
  \/ \E r \in CtlReplicas, k \in Instants : ExecEnd(r, k)
  \/ \E r \in CtlReplicas, k \in Instants : HandleRelease(r, k)
  \/ \E r \in CtlReplicas, k \in Instants : HandleReleaseFail(r, k)
  \/ \E r \in CtlReplicas : DetectAndHandleDeadlocks(r)
  \/ LockTimerFire
  \/ LateTick

SpecWatchdog == InitWatchdog /\ [][NextWatchdog]_vars

\* ------------------------------------------------------------ Manager: kill-switch
\* the state after r1.initialize() and r1.createJob of the cron job "j", with
\* r2.initialize() run between createJob's storage write and its triggerReset:
\* r2 has the timer of "j", r1 has none (its Manager may be disabled as well),
\* and both replicas are stale
InitToggle ==
  /\ now = 0
  /\ uuid = 0
  /\ locks = EmptyMap
  /\ lockTimers = {}
  /\ chain = <<>>
  /\ burst = NoBurst(0)
  /\ last = NoCall
  /\ released = [k \in Keys |-> NoValue]
  /\ jobs = [i \in {1, 2} |->
               IF i = 1 THEN Job(WATCH_JOB_NAME, "query", TRUE, 1, FALSE, FALSE, FALSE, 1, FALSE)
               ELSE Job("j", "method", TRUE, 1, FALSE, FALSE, FALSE, 1, FALSE)]
  /\ jobsByName = [n \in {WATCH_JOB_NAME, "j"} |-> IF n = "j" THEN 2 ELSE 1]
  /\ jobRuns = EmptyMap
  /\ fire = [f \in Firings |-> IdleFiring]
  /\ activeLocks = [r \in Replicas |-> EmptyMap]
  /\ isDestroyed = [r \in Replicas |-> FALSE]
  /\ held = {}
  /\ executedBy = [k \in Instants |-> {}]
  /\ controls = <<[id |-> 1, enabled |-> TRUE, replicas |-> CtlReplicas, stale |-> CtlReplicas,
                   version |-> <<"version", "r1">>]>>
  /\ proc = [p \in Procs |-> Idle]
  /\ isInitialized = [r \in Replicas |-> r \in CtlReplicas]
  /\ isResetting = [r \in Replicas |-> FALSE]
  /\ cronJobs = [r \in Replicas |-> IF r = "r2" THEN [n \in {"j"} |-> 1] ELSE EmptyMap]
  /\ managerEnabled \in [Replicas -> BOOLEAN]
  /\ \A r \in Replicas \ {"r1"} : managerEnabled[r]
  /\ calls = 0
  /\ createLog = NoCreate
  /\ deadlockDetectionInterval = [r \in Replicas |-> IF r \in CtlReplicas THEN 1 ELSE 0]
  /\ apiLog = NoApi
  /\ batches = EmptyMap
  /\ batchCalls = <<>>
  /\ destroyCall = [r \in Replicas |-> NoDestroy]

StepToggle(p) ==
  \/ TogglePut(p)
  \/ InitializeJobsGet(p)
  \/ InitializeJobsFind(p)
  \/ ResetFresh(p)
  \/ UcwrGet(p)
  \/ UcwrPut(p)

NextToggle ==
  \/ \E r \in CtlReplicas : ToggleControlCall(r)
  \/ \E r \in CtlReplicas, name \in JobNames : CronTick(r, name)
  \/ \E p \in Procs : StepToggle(p)

\* the calls in flight go on and the timers that run keep firing
FairToggle ==
  /\ \A p \in Procs : WF_vars(StepToggle(p))
  /\ \A r \in CtlReplicas : WF_vars(\E name \in JobNames : CronTick(r, name))

SpecToggle == InitToggle /\ [][NextToggle]_vars /\ FairToggle

\* ------------------------------------------------------------ Manager: overlapping firings
\* two consecutive firings of the timer of one distributed job on one replica:
\* the second starts while the first is still in handleJob
OneReplica == "r1"
OverlapInstants == {1, 2}
OverlapFirings == {OneReplica} \X OverlapInstants

InitOverlap ==
  /\ now = 0
  /\ uuid = 0
  /\ locks = EmptyMap
  /\ lockTimers = {}
  /\ chain = <<>>
  /\ burst = NoBurst(0)
  /\ last = NoCall
  /\ released = [k \in Keys |-> NoValue]
  /\ \E persist \in BOOLEAN, runOnce \in BOOLEAN, ttl \in TtlChoices :
       jobs = [i \in {1} |-> Job(FiredJob, "inline", TRUE, 1, FALSE, persist, TRUE, ttl,
                                 runOnce)]
  /\ jobsByName = [n \in {FiredJob} |-> 1]
  /\ jobRuns = EmptyMap
  /\ fire = [f \in OverlapFirings |-> IdleFiring]
  /\ activeLocks = [r \in Replicas |-> EmptyMap]
  /\ isDestroyed = [r \in Replicas |-> FALSE]
  /\ held = {}
  /\ executedBy = [k \in OverlapInstants |-> {}]
  /\ controls = <<>>
  /\ proc = [p \in Procs |-> Idle]
  /\ isInitialized = [r \in Replicas |-> FALSE]
  /\ isResetting = [r \in Replicas |-> FALSE]
  /\ cronJobs = [r \in Replicas |-> EmptyMap]
  /\ managerEnabled = [r \in Replicas |-> TRUE]
  /\ calls = 0
  /\ createLog = NoCreate
  /\ InitExt

NextOverlap ==
  \/ \E k \in OverlapInstants : CronFire(OneReplica, k)
  \/ \E k \in OverlapInstants : HandleFind(OneReplica, k)
  \/ \E k \in OverlapInstants : HandleCreateRun(OneReplica, k)
  \/ \E k \in OverlapInstants : HandleAcquire(OneReplica, k)
  \/ \E k \in OverlapInstants : HandleAcquireFail(OneReplica, k)
  \/ \E k \in OverlapInstants : ExecEnd(OneReplica, k)
  \/ \E k \in OverlapInstants : HandleRunOnce(OneReplica, k)
  \/ \E k \in OverlapInstants : HandleComplete(OneReplica, k)
  \/ \E k \in OverlapInstants : HandleMarkFailed(OneReplica, k)
  \/ \E k \in OverlapInstants : HandleRelease(OneReplica, k)
  \/ \E k \in OverlapInstants : HandleReleaseFail(OneReplica, k)
  \/ LockTimerFire
  \/ Tick

SpecOverlap == InitOverlap /\ [][NextOverlap]_vars

\* ------------------------------------------------------------ Storage: pages
\* a JavaScript number that may be NaN
NaN == [nan |-> TRUE, v |-> 0]
Num(n) == [nan |-> FALSE, v |-> n]

\* x || d on numbers: d when x is 0 or left out (0 stands for both)
OrElse(x, d) == IF x = 0 THEN d ELSE x

\* Math.ceil(a / b) for a >= 0; b is 0 only when a is 0 (0 / 0 is NaN)
CeilDiv(a, b) ==
  IF b = 0 THEN NaN
  ELSE IF b > 0 THEN Num((a + b - 1) \div b)
  ELSE Num(0 - (a \div (0 - b)))

\* Math.min(x, y), Math.max(x, y) with y possibly NaN
MathMax(x, y) == IF x >= y THEN x ELSE y
MathMin(x, y) == IF y.nan THEN NaN ELSE Num(IF x <= y.v THEN x ELSE y.v)

\* (currentPage - 1) * pageSize and startIndex + pageSize
StartIndex(currentPage, pageSize) ==
  IF currentPage.nan THEN NaN ELSE Num((currentPage.v - 1) * pageSize)
EndIndex(startIndex, pageSize) ==
  IF startIndex.nan THEN NaN ELSE Num(startIndex.v + pageSize)

\* the index Array.prototype.slice makes of an argument: NaN is 0, a negative
\* one counts from the end, and the result is kept within 0..len
SliceIndex(n, len) ==
  IF n.nan THEN 0
  ELSE IF n.v < 0 THEN MathMax(len + n.v, 0)
  ELSE IF n.v > len THEN len ELSE n.v
Slice(rows, start, end) ==
  SubSeq(rows, SliceIndex(start, Len(rows)) + 1, SliceIndex(end, Len(rows)))

\* the pagination of findJobs and of findJobRuns (next_page and previous_page,
\* which are computed from current_page and last_page, are left out)
Paginate(rows, reqPage, reqPageSize) ==
  LET total == Len(rows)
      page == OrElse(reqPage, 1)
      pageSize == OrElse(reqPageSize, total)
      lastPage == CeilDiv(total, pageSize)
      currentPage == MathMin(MathMax(1, page), lastPage)
      startIndex == StartIndex(currentPage, pageSize)
      endIndex == EndIndex(startIndex, pageSize)
  IN [data |-> Slice(rows, startIndex, endIndex),
      pagination |-> [total |-> total, last_page |-> lastPage,
                      current_page |-> currentPage, page_size |-> pageSize]]

\* Array.from(map.values()): the rows in insertion order, which is the order
\* of the ids
InOrder(S) ==
  CHOOSE s \in [1..Cardinality(S) -> S] : \A i, j \in 1..Cardinality(S) : i < j => s[i] < s[j]

MaxRows == 3
PageChoices == (0 - 1)..MaxRows
PageSizeChoices == (0 - 1)..MaxRows
PageNames == <<"a", "b", "c">>
PageFilters == {NoFilter, [NoFilter EXCEPT !.deleted = "null"]}

pageOtherVars == <<cacheVars, callVars, fireVars, controls, proc, isInitialized, isResetting,
                   cronJobs, managerEnabled, calls, createLog, deadlockDetectionInterval,
                   batches, batchCalls, destroyCall>>

\* storage.createJob and storage.deleteJob called on the storage
StorageCreateJob ==
  /\ Cardinality(DOMAIN jobs) <= MaxRows
  /\ LET c == CreateJob(jobs, jobsByName,
                        Job(PageNames[Cardinality(DOMAIN jobs)], "method", TRUE, 1, FALSE,
                            FALSE, FALSE, 1, FALSE))
     IN /\ c.err = "none"
        /\ jobs' = c.jobs
        /\ jobsByName' = c.byName
  /\ UNCHANGED <<pageOtherVars, jobRuns, apiLog>>

StorageDeleteJob(id) ==
  /\ FindJob(jobs, id) # 0
  /\ LET d == DeleteJob(jobs, jobsByName, id)
     IN /\ jobs' = d.jobs
        /\ jobsByName' = d.byName
  /\ UNCHANGED <<pageOtherVars, jobRuns, apiLog>>

\* storage.createJobRun for a stored job
StorageCreateJobRun(jobId) ==
  /\ Cardinality(DOMAIN jobRuns) < MaxRows
  /\ LET c == CreateJobRun(jobRuns, jobs, Cardinality(DOMAIN jobRuns) + 1, jobId, now)
     IN /\ c.err = "none"
        /\ jobRuns' = c.runs
  /\ UNCHANGED <<pageOtherVars, jobVars, apiLog>>

\* storage.findJobs(filter) and storage.findJobRuns({page, page_size}): the
\* matching rows, then their page
StorageFindJobs(filter, page, page_size) ==
  /\ LET rows == InOrder(FindJobsFilter(jobs, filter))
         answer == Paginate(rows, page, page_size)
     IN apiLog' = [op |-> "findJobs", rows |-> rows, page |-> page, page_size |-> page_size,
                   data |-> answer.data, pagination |-> answer.pagination]
  /\ UNCHANGED <<pageOtherVars, jobVars, jobRuns>>

StorageFindJobRuns(page, page_size) ==
  /\ LET rows == InOrder(DOMAIN jobRuns)
         answer == Paginate(rows, page, page_size)
     IN apiLog' = [op |-> "findJobRuns", rows |-> rows, page |-> page,
                   page_size |-> page_size,
                   data |-> answer.data, pagination |-> answer.pagination]
  /\ UNCHANGED <<pageOtherVars, jobVars, jobRuns>>

NextPages ==
  \/ StorageCreateJob
  \/ StorageDeleteJob(2)
  \/ StorageCreateJobRun(2)
  \/ \E filter \in PageFilters, page \in PageChoices, page_size \in PageSizeChoices :
       StorageFindJobs(filter, page, page_size)
  \/ \E page \in PageChoices, page_size \in PageSizeChoices : StorageFindJobRuns(page, page_size)

SpecPages == InitJobs /\ [][NextPages]_vars

\* the rows of page p when the pages hold n rows each
PageRows(rows, p, n) ==
  SubSeq(rows, (p - 1) * n + 1, IF p * n > Len(rows) THEN Len(rows) ELSE p * n)

\* ------------------------------------------------------------ claims: firings
\* C1: for a job with distributed=true, at every instant at most one replica
\* holds lock:<jobName>, that is, has acquired it and has neither released it
\* nor had it expire.
C1_OneHolder == Cardinality({h.replica : h \in {x \in held : x.expiresAt > now}}) <= 1

\* C2: for a job that opts into distributed locking, at most one replica
\* invokes the execution for a given scheduled instant.
C2_OneExecutionPerFiring ==
  TheJob.distributed => \A k \in Instants : Cardinality(executedBy[k]) <= 1

\* C10: no JobRun has both completed and failed set.
C10_CompletedXorFailed ==
  \A id \in DOMAIN jobRuns : ~(jobRuns[id].completed # Unset /\ jobRuns[id].failed # Unset)

\* a JobRun whose firing failed after the execution returned (the runOnce
\* update threw) is marked failed, and another one is completed
C10_Witness ==
  /\ \E id \in DOMAIN jobRuns : jobRuns[id].failed # Unset /\ fire[id].pc = "done"
  /\ \E id \in DOMAIN jobRuns : jobRuns[id].completed # Unset /\ fire[id].pc = "done"

\* C11: a JobRun exists only for a job with persist=true, and once the firing
\* that created it has ended it has been written exactly twice: at creation,
\* then at termination (completed or failed).
C11_JobRunWrittenTwice ==
  \A id \in DOMAIN jobRuns :
    /\ TheJob.persist
    /\ fire[id].pc = "done" => jobRuns[id].writes = 2

\* C13: an error thrown by the execution closure never reaches the cron timer;
\* it is captured in the lens as the frame 'Job execution failed', and the
\* JobRun of the firing, when there is one, is written with failed = now and
\* result = the lens frames (unless that write itself throws, which rejects
\* handleJob into the catch of executeJob).
C13_ExecutionErrorCaptured ==
  \A id \in Firings :
    (fire[id].threw /\ fire[id].pc \in {"release", "done"}) =>
      /\ ~fire[id].escaped
      /\ fire[id].lens = <<"Job execution failed">>
      /\ fire[id].hasRun /\ ~fire[id].rejected =>
            /\ jobRuns[id].failed # Unset
            /\ jobRuns[id].failed >= jobRuns[id].started
            /\ jobRuns[id].completed = Unset
            /\ jobRuns[id].result = fire[id].lens

\* two executions threw: the JobRun of one is marked failed, the failed write
\* of the other threw, and both firings have ended
C13_Witness ==
  /\ \E id \in Firings :
       /\ fire[id].threw /\ fire[id].pc = "done" /\ fire[id].hasRun
       /\ ~fire[id].rejected /\ jobRuns[id].failed # Unset
  /\ \E id \in Firings :
       fire[id].threw /\ fire[id].pc = "done" /\ fire[id].hasRun /\ fire[id].rejected

\* ------------------------------------------------------------ claims: Control
\* C5: when createJob of a method job with a cron returns, Control.stale
\* contains every replica of Control.replicas.
C5_CreateJobMarksAllStale ==
  [][\A r \in CtlReplicas :
       (proc[<<r, "api">>].op = "createJob" /\ proc'[<<r, "api">>].pc = "idle")
         => Control'.replicas \subseteq Control'.stale]_vars

\* C6: even with every Manager enabled, once Control.stale is not empty it
\* becomes empty again: every replica listed acts on it and removes itself.
C6_StaleEventuallyEmpty ==
  (\A r \in Replicas : managerEnabled[r])
    => ((HasControl /\ Control.stale # {}) ~> (HasControl /\ Control.stale = {}))

\* C7: Control.stale is a subset of Control.replicas in every reachable state.
C7_StaleSubsetReplicas == HasControl => Control.stale \subseteq Control.replicas

\* C8: storage holds at most one Control row, and a createControl call made
\* while a row exists fails with Conflict.
C8_ControlSingleton ==
  /\ Len(controls) <= 1
  /\ createLog.pre > 0 => createLog.err = "Conflict"

\* two replicas initialize together: both read no Control, one creates it and
\* the createControl of the other is refused
C8_Witness ==
  /\ createLog.pre = 1 /\ createLog.err = "Conflict"
  /\ Len(controls) = 1
  /\ \E r \in CtlReplicas : proc[<<r, "api">>].pc = "idle" /\ ~isInitialized[r]

\* C12: after updateJob(id, {cron: C'}) has completed, for a job of any type,
\* the timer registered under the job's name comes to fire on the stored
\* schedule: no timer keeps firing the job on the prior schedule.
C12_TimerFollowsUpdate ==
  (calls > 0 /\ proc[<<SchedReplica, "api">>].pc = "idle")
    ~> ("j" \in DOMAIN cronJobs[SchedReplica] => cronJobs[SchedReplica]["j"] = jobs[1].cron)

\* C14: after destroy() has returned the Manager owns no active timer, neither
\* a cron timer nor a watchdog interval, whatever activity (a reset, a purge,
\* an initialize) was in progress when destroy() was called.
C14_NoTimerAfterDestroy ==
  \A r \in CtlReplicas :
    destroyCall[r].pc = "done" =>
      cronJobs[r] = EmptyMap /\ deadlockDetectionInterval[r] = 0

C9_LiveNamesUnique ==
  \A i \in LiveJobs, j \in LiveJobs : i # j => jobs[i].name # jobs[j].name

\* a job was renamed to "d", another job is live and a third one is deleted
C9_Witness ==
  /\ \E i \in LiveJobs, j \in LiveJobs : i # j /\ jobs[i].name = "d"
  /\ \E d \in DOMAIN jobs : jobs[d].deleted /\ d \in {jobsByName[n] : n \in DOMAIN jobsByName}

\* C17: initialize() is idempotent: however its calls are interleaved, at
\* most one deadlock-watchdog interval runs for the Manager, and exactly one
\* once it is initialized.
C17_OneWatchdog ==
  /\ deadlockDetectionInterval[SchedReplica] <= 1
  /\ isInitialized[SchedReplica] => deadlockDetectionInterval[SchedReplica] = 1

\* C16: a public API called on a Manager that has been destroyed, or whose
\* initialize() has not completed, throws the error of ensureInitialized and
\* neither storage nor cache is touched: no call passes the gate, and the step
\* of the call changes nothing but the record of its error.
C16_GateBeforeStorage ==
  [][(isDestroyed[SchedReplica] \/ ~isInitialized[SchedReplica]) =>
       /\ calls' = calls
       /\ jobs' # jobs => proc' # proc
       /\ apiLog' # apiLog =>
            /\ apiLog'.err = IF isDestroyed[SchedReplica] THEN DESTROYED ELSE NOT_INITIALIZED
            /\ UNCHANGED <<jobVars, jobRuns, controls, cacheVars, cronJobs, proc>>]_vars

\* purgeControl() has thrown on a Manager destroyed after its initialize()
C16_Witness ==
  /\ apiLog.op = "purgeControl"
  /\ apiLog.err = DESTROYED
  /\ isInitialized[SchedReplica]
  /\ destroyCall[SchedReplica].pc = "done"

\* the system names: __watch__ and the names with a protected prefix
IsSystemName(name) ==
  \/ name = "__watch__"
  \/ StartsWith(name, "__")
  \/ StartsWith(name, "system:")
  \/ StartsWith(name, "internal:")

\* C18: a mutation API called for a job whose current name is a system name,
\* or with a system name as the new name, rejects with a validation error and
\* leaves storage unchanged: no step creates, changes or deletes a row that
\* has a system name or gives one to a row, and the call that names one throws
\* the validation error.
C18_SystemNamesProtected ==
  [][/\ \A id \in DOMAIN jobs' :
          IsSystemName(jobs'[id].name) => (id \in DOMAIN jobs /\ jobs'[id] = jobs[id])
     /\ \A id \in DOMAIN jobs : IsSystemName(jobs[id].name) => jobs'[id] = jobs[id]
     /\ (/\ apiLog' # apiLog
         /\ apiLog'.op \in MutationApis
         /\ IsSystemName(apiLog'.name) \/ IsSystemName(apiLog'.current))
        => (apiLog'.err = VALIDATION /\ UNCHANGED <<jobVars, jobRuns, controls>>)]_vars

\* updateJob has rejected the renaming of the job "a" to a name with a
\* protected prefix, and the row of the watch job is as initialize() made it
C18_Witness ==
  /\ apiLog.op = "updateJob"
  /\ apiLog.current = "a"
  /\ apiLog.name = "internal:x"
  /\ apiLog.err = VALIDATION
  /\ jobs[1].name = WATCH_JOB_NAME /\ ~jobs[1].deleted /\ jobs[1].enabled

\* C19: the watch job is never surfaced through the public API: the answer of
\* listJobs, whatever the filter, holds no job named __watch__, and getJob
\* called with the id of the watch job answers null, although its row is in
\* storage.
C19_WatchJobHidden ==
  [][apiLog' # apiLog =>
       /\ apiLog'.op = "listJobs" => \A id \in apiLog'.data : jobs[id].name # "__watch__"
       /\ (apiLog'.op = "getJob" /\ apiLog'.err = "none" /\ apiLog'.current = "__watch__")
          => apiLog'.data = {}]_vars

\* getJob has answered null for the id of the watch job, whose row is live
C19_Witness ==
  /\ apiLog.op = "getJob"
  /\ apiLog.err = "none"
  /\ apiLog.current = WATCH_JOB_NAME
  /\ apiLog.data = {}
  /\ WATCH_JOB_NAME \in DOMAIN jobsByName
  /\ ~jobs[jobsByName[WATCH_JOB_NAME]].deleted
  /\ Cardinality(LiveJobs) > 1

\* ------------------------------------------------------------ claims: cache
\* C20: starting from an absent counter, N concurrent incrementBatch(j) calls
\* each return a distinct value in 1..N, and once all have returned
\* getBatch(j) is N.
C20_BatchMonotonic ==
  \A cache \in BatchCaches, job \in BatchJobs :
    LET N == Cardinality(CallsOf(cache, job))
        done == Returned(cache, job)
    IN /\ \A i \in done : batchCalls[i].value \in 1..N
       /\ \A i, j \in done : i # j => batchCalls[i].value # batchCalls[j].value
       /\ done = CallsOf(cache, job) => GetBatch(batches, cache, job) = N

\* MaxIncr calls made on the absent counter of one job of the InMemoryCache,
\* all of them before any ran, have returned
C20_Witness ==
  /\ Cardinality(Returned("memory", "a")) = MaxIncr
  /\ \A i \in Returned("memory", "a") : batchCalls[i].seen = 0
  /\ GetBatch(batches, "memory", "a") = MaxIncr

\* C3: when several callers call acquireLock on one key concurrently while no
\* unexpired lock exists for it, exactly one call returns acquired=true, with
\* the value that is then stored, and every other call returns acquired=false.
C3_OneWinner ==
  /\ (burst.key # "none" /\ burst.free) =>
        /\ burst.won <= 1
        /\ (chain = <<>> /\ burst.n >= 1) => (burst.won = 1 /\ burst.lost = burst.n - 1)
  /\ (last.op = "acquire" /\ last.ok) => (last.got # NoValue /\ last.got = last.post[1])
  /\ (last.op = "acquire" /\ ~last.ok) => last.got = NoValue

\* three concurrent acquireLock calls on a free key have all returned
C3_Witness ==
  /\ chain = <<>> /\ burst.key # "none" /\ burst.free
  /\ burst.n >= 3 /\ burst.won = 1 /\ burst.lost >= 2

\* C4: releaseLock(k, v) returns true only if the lock stored at k has value v;
\* with another value it returns false and leaves the stored value and expiry
\* as they were; releasing again a value already released returns false.
C4_ReleaseSafety ==
  last.op = "release" =>
    /\ last.ok => last.pre[1] = last.value
    /\ last.pre[1] # last.value => (~last.ok /\ last.post = last.pre)
    /\ last.again => ~last.ok

\* a value released before is released again while another caller's lock is
\* stored: the call returns false and that lock is untouched
C4_Witness ==
  /\ last.op = "release" /\ last.again /\ ~last.ok
  /\ last.pre[1] # NoValue /\ last.pre[1] # last.value /\ last.post = last.pre
  /\ last.key \in DOMAIN locks

\* C21: after extendLock(key, v, ttlMs) returned true, the lock expires ttlMs
\* after the call: while no other cache operation has run and the clock has
\* not reached that expiry, the lock is stored with the value v and the
\* restarted expiry.
C21_ExtendRestartsTtl ==
  (last.op = "extend" /\ last.ok /\ now < last.post[2]) => Stored(locks, last.key) = last.post

\* C22: no Cache operation throws: when the back end fails or the cache has
\* been destroyed, acquireLock returns {acquired: false}, releaseLock and
\* extendLock return false, getJobContext returns null, getBatch returns 0
\* and incrementBatch returns 1.
C22_CacheNeverThrows ==
  apiLog.op \in CacheOps =>
    /\ ~apiLog.threw
    /\ apiLog.failed =>
         CASE apiLog.op = "acquireLock" -> ~apiLog.result.acquired
           [] apiLog.op \in {"releaseLock", "extendLock"} -> apiLog.result = FALSE
           [] apiLog.op = "getJobContext" -> apiLog.result = "null"
           [] apiLog.op = "getBatch" -> apiLog.result = 0
           [] apiLog.op = "incrementBatch" -> apiLog.result = 1
           [] OTHER -> TRUE

\* incrementBatch called on the destroyed InMemoryCache has returned 1 while
\* the counter it was called for is at 2
C22_Witness ==
  /\ apiLog.op = "incrementBatch"
  /\ apiLog.cache = "memory"
  /\ apiLog.failed
  /\ apiLog.result = 1
  /\ CacheDown(SchedReplica)
  /\ GetBatch(batches, "memory", "a") = 2

\* C23: after a job is soft-deleted, findJob and findJobByName answer null for
\* it, and the answer of findJobs, hence of listJobs, leaves it out unless the
\* filter asks for deleted = 'not-null'.
C23_DeletedJobsHidden ==
  [][/\ \A id \in DOMAIN jobs' :
          jobs'[id].deleted => /\ FindJob(jobs', id) = 0
                               /\ FindJobByName(jobs', jobsByName', jobs'[id].name) # id
     /\ (apiLog' # apiLog /\ apiLog'.op = "getJob" /\ apiLog'.err = "none")
        => \A id \in apiLog'.data : ~jobs[id].deleted
     /\ (apiLog' # apiLog /\ apiLog'.op = "listJobs" /\ apiLog'.filter.deleted # "not-null")
        => \A id \in apiLog'.data : ~jobs[id].deleted]_vars

\* C24: for every requested page, page_size and size of the matching result
\* set, findJobs and findJobRuns report a current_page within 1..last_page and
\* return the rows of exactly that page.
C24_PageWithinRange ==
  apiLog.op \in {"findJobs", "findJobRuns"}
  => LET p == apiLog.pagination
     IN /\ ~p.last_page.nan
        /\ ~p.current_page.nan
        /\ 1 <= p.current_page.v
        /\ p.current_page.v <= p.last_page.v
        /\ apiLog.data = PageRows(apiLog.rows, p.current_page.v, p.page_size)

\* the call or firing whose updateControlWithRetry writes the Control in this step
Writes(p) == proc[p].pc = "ucwrPut" /\ proc'[p] # proc[p]

\* C25: a replica marked stale by triggerReset stays in Control.stale until it
\* has rebuilt its timers: the mark is taken away only by the replica's own
\* write, after its prepare or its resetJobs read it, and no write of another
\* replica drops it (purgeControl, which empties the lists, and the health
\* check that drops the replica from Control.replicas too, set apart).
C25_StaleMarkKept ==
  [][\A r \in CtlReplicas :
       (/\ Len(controls) > 0
        /\ r \in controls[1].stale
        /\ Len(controls') > 0
        /\ r \notin controls'[1].stale)
       => \E p \in Procs :
            /\ Writes(p)
            /\ \/ p[1] = r
               \/ proc[p].op = "purgeControl"
               \/ r \notin controls'[1].replicas]_vars

\* the firing f has acquired the lock and has not yet run its release
Acquired(f) == fire[f].lockValue # NoValue /\ fire[f].pc # "done"

\* the firing f holds the lock in the cache: acquired, not released, not expired
Holds(f) ==
  /\ Acquired(f)
  /\ \E h \in held : h.replica = f[1] /\ h.value = fire[f].lockValue

\* C26: activeLocks[lock:<name>] of a replica exists exactly while some firing
\* on that replica holds the lock unreleased, and carries the holder's
\* lockValue, for every interleaving of firings of the same job on the replica.
C26_ActiveLockTracksHolder ==
  \A r \in Replicas :
    LET key == LockKey(FiredJob)
        mine == {f \in DOMAIN fire : f[1] = r}
    IN /\ key \in DOMAIN activeLocks[r]
          => \E f \in mine : Acquired(f) /\ activeLocks[r][key].lockValue = fire[f].lockValue
       /\ \A f \in mine :
            Holds(f) => /\ key \in DOMAIN activeLocks[r]
                        /\ activeLocks[r][key].lockValue = fire[f].lockValue

\* the execution of firing f is running under its lock, whose TTL has not
\* elapsed at time t
RunsLocked(f, t) ==
  /\ fire[f].pc = "exec"
  /\ fire[f].lockValue # NoValue
  /\ Stored(locks, LockKey(FiredJob))[1] = fire[f].lockValue
  /\ t < Stored(locks, LockKey(FiredJob))[2]

\* a step of a Manager: of one of its firings or of its destroy()
ManagerStep ==
  <<fire, activeLocks, isDestroyed, destroyCall>>' # <<fire, activeLocks, isDestroyed, destroyCall>>

\* C27: while the execution of a firing is running and the TTL of its lock has
\* not elapsed, no step of the same Manager (destroy(), another firing's
\* cleanup) takes its lock out of the cache.
C27_RunningLockKept ==
  [][\A f \in DOMAIN fire :
       (ManagerStep /\ RunsLocked(f, now') /\ fire'[f].pc = "exec")
       => Stored(locks', LockKey(FiredJob)) = Stored(locks, LockKey(FiredJob))]_vars

\* C28: when a firing of a distributed job does not acquire lock:<name>
\* (another holder has it), handleJob returns without invoking the execution,
\* without an activeLocks entry, without a releaseLock call and without an
\* update of any JobRun; the other outcome of the step is that the cache call
\* threw, which goes to catch.
C28_NotAcquiredReturns ==
  [][\A f \in DOMAIN fire :
       (/\ fire[f].pc = "acquire"
        /\ fire'[f] # fire[f]
        /\ LockedAt(locks, LockKey(FiredJob), now)
        /\ fire'[f].lens = fire[f].lens)
       => /\ fire'[f] = [fire[f] EXCEPT !.pc = "done"]
          /\ fire'[f].lockValue = NoValue
          /\ UNCHANGED <<activeLocks, locks, lockTimers, held, jobRuns, executedBy>>]_vars

\* a firing of a distributed job with a JobRun has returned without the lock,
\* which another replica holds: its JobRun has been written once and its
\* replica ran no execution
C28_Witness ==
  \E f \in DOMAIN fire, g \in DOMAIN fire :
    /\ TheJob.distributed
    /\ fire[f].pc = "done" /\ fire[f].hasRun /\ fire[f].lockValue = NoValue
    /\ fire[f].lens = <<>>
    /\ jobRuns[f].writes = 1
    /\ f[1] \notin executedBy[f[2]]
    /\ LockKey(FiredJob) \notin DOMAIN activeLocks[f[1]]
    /\ g # f /\ Holds(g)

\* C29: a firing that acquired the lock leaves handleJob, on every exit path
\* (normal completion, execution error, failure of a JobRun write, failure of
\* the release itself), through the release of its finally block only:
\* releaseLock is attempted with the firing's lock value (it removes the lock
\* stored under that value, or changes nothing when it throws or answers
\* false) and the activeLocks entry of the key is removed.
C29_ReleaseOnEveryExit ==
  [][\A f \in DOMAIN fire :
       (fire[f].lockValue # NoValue /\ fire[f].pc # "done" /\ fire'[f].pc = "done")
       => /\ fire[f].pc = "release"
          /\ LockKey(FiredJob) \notin DOMAIN activeLocks'[f[1]]
          /\ \/ locks' = locks
             \/ /\ Stored(locks, LockKey(FiredJob))[1] = fire[f].lockValue
                /\ LockKey(FiredJob) \notin DOMAIN locks']_vars

\* two firings that acquired the lock have ended: the failed write of one
\* threw after its execution threw, the release of the other failed after a
\* normal completion and its lock is still in the cache; neither has left an
\* activeLocks entry
C29_Witness ==
  \E f \in DOMAIN fire, g \in DOMAIN fire :
    /\ f # g
    /\ fire[f].pc = "done" /\ fire[f].lockValue # NoValue
    /\ fire[f].threw /\ fire[f].rejected
    /\ fire[g].pc = "done" /\ fire[g].lockValue # NoValue /\ ~fire[g].threw
    /\ Stored(locks, LockKey(FiredJob))[1] = fire[g].lockValue
    /\ LockKey(FiredJob) \notin DOMAIN activeLocks[f[1]]
    /\ LockKey(FiredJob) \notin DOMAIN activeLocks[g[1]]

\* C30: once handleJob has returned for a firing that created a JobRun, that
\* JobRun has exactly one of completed and failed set (a firing whose write of
\* failed was itself refused by the storage set apart).
C30_NoRunLeftRunning ==
  \A id \in DOMAIN jobRuns :
    (fire[id].pc = "done" /\ ~fire[id].rejected)
    => (jobRuns[id].completed # Unset) # (jobRuns[id].failed # Unset)

\* ------------------------------------------------------------ claims: Control writes
\* C31: a successful triggerReset() changes Control.version to a token that
\* differs from the version stored before the call.
C31_TriggerResetBumpsVersion ==
  [][\A p \in Procs :
       (/\ proc[p].op = "createJob"
        /\ Writes(p)
        /\ UpdateControl(controls, proc[p].id, proc[p].merged).err = "none")
       => controls'[1].version # controls[1].version]_vars

\* C32: prepare() on one replica does not remove another replica from
\* Control.replicas when no cache tracks the replicas: without pingReplica the
\* list is kept with self appended, and the false of a cache that does not
\* track replicas is no proof that the replica is dead.
C32_UntrackedReplicasKept ==
  [][\A r \in CtlReplicas :
       (Len(controls) > 0 /\ r \in controls[1].replicas) => r \in controls'[1].replicas]_vars

\* C33: every replica that has completed initialize() on the shared store is
\* listed in Control.replicas, in any interleaving of the initialize() calls.
C33_RegistrationKept ==
  \A r \in Replicas : isInitialized[r] => (Len(controls) > 0 /\ r \in controls[1].replicas)

\* C34: when several replicas call initialize() concurrently on a store with
\* no Control and no watch job, every call completes with success, and one
\* Control row and one watch job exist afterwards.
C34_ConcurrentInitializeSucceeds ==
  [][\A p \in DOMAIN proc :
       (proc[p].op = "initialize" /\ proc'[p].pc = "idle")
       => /\ isInitialized'[p[1]]
          /\ Len(controls') = 1
          /\ Cardinality({id \in DOMAIN jobs' : jobs'[id].name = WATCH_JOB_NAME}) = 1]_vars

\* C35: updateControlWithRetry makes at most maxRetries update attempts, each
\* with the Control version read for that attempt; it goes on to another
\* attempt only after a conflict that was not the last attempt's, and fails
\* on any other error and on the conflict of the last attempt.
C35_BoundedRetry ==
  [][\A p \in DOMAIN proc :
       /\ (proc[p].pc = "ucwrGet" /\ proc'[p] # proc[p])
          => IF Len(controls) = 0 \/ controls[1].id # proc[p].id
             THEN proc'[p] = Idle
             ELSE /\ proc'[p].pc = "ucwrPut"
                  /\ proc'[p].attempt = proc[p].attempt
                  /\ proc'[p].merged.version = controls[1].version
       /\ Writes(p)
          => LET err == UpdateControl(controls, proc[p].id, proc[p].merged).err
             IN /\ proc[p].attempt <= MaxRetries
                /\ (proc'[p].pc = "ucwrGet")
                     <=> (err = "Conflict" /\ proc[p].attempt < MaxRetries)
                /\ proc'[p].pc = "ucwrGet" => proc'[p].attempt = proc[p].attempt + 1
                /\ (err # "none" /\ proc'[p].pc # "ucwrGet")
                     => (proc'[p] = Idle /\ controls' = controls)
                /\ err = "none" => controls'[1].stale = proc[p].merged.stale]_vars

\* the last attempt of an update: it carries the version read for it
LastAttempt ==
  /\ proc[RetryProc].pc = "ucwrPut"
  /\ proc[RetryProc].attempt = MaxRetries

\* the last attempt is about to be refused: the version changed after its read
C35_Witness ==
  /\ LastAttempt
  /\ UpdateControl(controls, proc[RetryProc].id, proc[RetryProc].merged).err = "Conflict"

\* ------------------------------------------------------------ claims: watchdog
\* a watchdog tick of replica r has just run
WatchdogTick(r) ==
  /\ apiLog'.op = "detectAndHandleDeadlocks"
  /\ apiLog'.replica = r
  /\ apiLog' # apiLog \/ activeLocks'[r] # activeLocks[r]
  /\ fire' = fire

CronTimersRunning(r) ==
  \A id \in DOMAIN jobs :
    (jobs[id].name # WATCH_JOB_NAME /\ jobs[id].enabled /\ ~jobs[id].deleted
     /\ jobs[id].cron # NoCron)
      => jobs[id].name \in DOMAIN cronJobs[r]

\* toggleControl has switched Control.enabled off and on again
SwitchedBackOn ==
  /\ calls >= 2
  /\ \A r \in CtlReplicas : proc[<<r, "api">>].pc = "idle"
  /\ Len(controls) > 0 /\ controls[1].enabled

\* C37: once toggleControl has switched Control.enabled back on, every
\* initialized replica whose manager is enabled eventually has its watch timer
\* and the timer of every enabled cron job running (unless the switch is
\* turned off again).
C37_TimersRunAfterSwitchOn ==
  SwitchedBackOn
    ~> (\/ ~controls[1].enabled
        \/ \A r \in CtlReplicas :
             (isInitialized[r] /\ managerEnabled[r])
               => (WATCH_JOB_NAME \in DOMAIN cronJobs[r] /\ CronTimersRunning(r)))

\* the call p of purgeControl returns: its prepare() ends with initializeJobs
PurgeCompletes(p) ==
  /\ proc[p].op = "purgeControl"
  /\ proc[p].pc \in {"ijGet", "ijFind"}
  /\ proc'[p].pc = "idle"

\* C38: when purgeControl() completes on replica R, Control.replicas is
\* exactly {R} and Control.stale is empty.
C38_PurgeLeavesSelfOnly ==
  [][\A p \in Procs :
       PurgeCompletes(p)
         => /\ Len(controls') > 0
            /\ controls'[1].replicas = {p[1]}
            /\ controls'[1].stale = {}]_vars

\* ------------------------------------------------------------ claims: tombstones
\* the rows that hold or held the name
HoldersOf(name) == {id \in DOMAIN jobs : jobs[id].name = name}

\* C39: createJob succeeds for a name whose only previous holders are
\* soft-deleted rows: the name of a tombstone is not a duplicate.
C39_TombstoneNameFree ==
  \A name \in CREATE_NAMES :
    (/\ ValidateJobName(name)
     /\ HoldersOf(name) # {}
     /\ \A id \in HoldersOf(name) : jobs[id].deleted)
      => CreateJob(jobs, jobsByName,
                   Job(name, "method", TRUE, 1, FALSE, FALSE, FALSE, 1, FALSE)).err = "none"

\* ------------------------------------------------------------ claims: lock removal
\* this step is a releaseLock call on the key that carries the stored value
MatchingRelease(key) ==
  /\ chain # <<>>
  /\ chain' = Tail(chain)
  /\ Head(chain).op = "release"
  /\ Head(chain).key = key
  /\ Head(chain).value = locks[key].value

\* C40: the in-process cache removes a lock entry only by a release with the
\* matching value or once the entry has expired (its own timer, or cleanup):
\* no step removes an entry that has not expired, so the timer of an earlier
\* acquisition of the key never deletes a lock acquired afterwards.
C40_LockRemovedOnlyByOwner ==
  [][\A key \in Keys :
       (key \in DOMAIN locks /\ key \notin DOMAIN locks')
         => (MatchingRelease(key) \/ locks[key].expiresAt <= now)]_vars

====
